---- MODULE Spec2Model ----
(***************************************************************************)
(* A model of litparser's PDF core: the top-level parse (header, trailer,  *)
(* Prev chain of cross-reference sections, object resolution), the queries *)
(* on a parsed document (page count, page collection, text extraction) and *)
(* the stream filter pipeline.                                             *)
(***************************************************************************)
EXTENDS Integers, Sequences, FiniteSets, TLC

\* ---------------------------------------------------------------- bounds
\* Number of byte offsets of the buffer at which a cross-reference section
\* may start.
MaxSections == 2
\* Largest object number of the buffer.
MaxObj == 2
\* Depth at which the interpreter gives up a recursion (RecursionError).
RecursionLimit == 4

Offsets == 1..MaxSections
ObjNums == 1..MaxObj

\* The members of the object stream of a file with one object stream;
\* the objects of such a file are object 1 and one more for each member.
MaxMembers == 2
Members == 1..(MaxMembers + 1)

VARIABLES
    \* --- the buffer handed to PDFParser (read lazily, then fixed)
    inputClass,   \* which family of inputs this run enumerates
    header,       \* TRUE iff the buffer starts with %PDF-x.y
    tail,         \* what the end of the buffer holds (%%EOF, startxref, offset)
    startxref,    \* the offset written after startxref
    sections,     \* offset -> the cross-reference section found there
    objBytes,     \* object number -> the bytes at the offset of its entry
    \* --- PDFParser / PDFDocument
    pc,           \* position of parse()
    err,          \* the exception parse() ended with, "" if none
    version,      \* document.version
    xref,         \* document.xref
    xrefOrder,    \* insertion order of document.xref
    trailer,      \* document.trailer
    objects,      \* document.objects, keyed by object number (generation 0)
    pending,      \* argument of the next _parse_xref_at call, 0 if none
    depth,        \* nesting of _parse_xref_at calls
    visits,       \* offset -> number of times a section was parsed there
    cache,        \* obj_stream_cache of _parse_all_objects
    decoded,      \* object number -> times _parse_object_stream ran on it
    \* --- calls on a stream object or on a parsed document
    stream,       \* the stream dictionary handed to the decoders
    document,     \* the PDFDocument handed to the queries
    call,         \* the function that was called, "none" before the call
    returned,     \* what the call returned or raised
    \* --- functions followed one step at a time
    lzw,          \* the local variables of decode_lzw
    interp        \* the ContentStreamParser that parse() is running on

parseVars == <<inputClass, header, tail, startxref, sections, objBytes, pc, err,
               version, xref, xrefOrder, trailer, objects, cache, pending,
               depth, visits, decoded>>

queryVars == <<stream, document, call, returned>>

stepVars == <<lzw, interp>>

vars == <<parseVars, queryVars, stepVars>>

\* The value of a variable that a run does not use.
Unused == [unused |-> TRUE]

\* No function is followed step by step.
StepsUnused == lzw = Unused /\ interp = Unused

\* A local variable: v is computed once and F reads it as often as it
\* likes (x = v; F(x)).
Once(v, F(_)) == CHOOSE y \in {F(x) : x \in {v}} : TRUE

\* ------------------------------------------------------- cross references
\* XRefEntry (parser.py:51-59); obj_stream_num = offset and obj_stream_idx =
\* gen_num for a compressed entry.
XRefEntry(offset, gen_num, in_use, compressed) ==
    [offset |-> offset, gen_num |-> gen_num, in_use |-> in_use,
     compressed |-> compressed]

\* "obj_num not in document.xref"
NoEntry == [offset |-> -1, gen_num |-> -1, in_use |-> FALSE, compressed |-> FALSE]

\* Where the bytes of object n lie according to the section at offset o.
Addr(o, n) == o * (MaxObj + 1) + n

\* The object stream a compressed record of object n names, and the index.
ContainerOf(n) == IF n = 1 THEN MaxObj ELSE 1
IndexOf(n) == IF n = 1 THEN 0 ELSE n - 2

\* Record codes of a section: NoRec = the section has no record for the
\* object number; 0, 1, 2 = the types free, in use, compressed.
NoRec == -1

\* One 20-byte record of a classic table: flag 'f' (0) or 'n' (1).
TableEntry(o, n, rec) ==
    XRefEntry(IF rec = 1 THEN Addr(o, n) ELSE 0, 0, rec = 1, FALSE)

\* One record of a cross-reference stream: field0 selects the type.
StreamEntry(o, n, rec) ==
    IF rec = 0 THEN XRefEntry(0, 0, FALSE, FALSE)
    ELSE IF rec = 1 THEN XRefEntry(Addr(o, n), 0, TRUE, FALSE)
    ELSE XRefEntry(ContainerOf(n), IndexOf(n), TRUE, TRUE)

SectionEntry(o, s, n) ==
    IF s.kind = "table" THEN TableEntry(o, n, s.recs[n])
    ELSE StreamEntry(o, n, s.recs[n])

\* AddEntry without its membership test: a later section overwrites.
AddEntryOverwrite(x, n, e) == [x EXCEPT ![n] = e]

\* "if obj_num not in self.document.xref: self.document.xref[obj_num] = ..."
AddEntry(x, n, e) == IF x[n] = NoEntry THEN [x EXCEPT ![n] = e] ELSE x

\* The records of one section, merged in ascending object number.
RECURSIVE MergeSection(_, _, _, _)
MergeSection(x, o, s, n) ==
    IF n > MaxObj THEN x
    ELSE MergeSection(IF s.recs[n] = NoRec THEN x
                      ELSE AddEntry(x, n, SectionEntry(o, s, n)),
                      o, s, n + 1)

\* document.xref is a dict: the keys in the order they were inserted.
RECURSIVE MergeOrder(_, _, _, _)
MergeOrder(x, ord, s, n) ==
    IF n > MaxObj THEN ord
    ELSE MergeOrder(x, IF s.recs[n] # NoRec /\ x[n] = NoEntry
                       THEN Append(ord, n) ELSE ord, s, n + 1)

\* ------------------------------------------------------------- trailer
TrailerKeys == {"Root", "Size", "Encrypt", "Prev"}
NoKey == -1
EmptyTrailer == [k \in TrailerKeys |-> NoKey]

\* The trailer dictionary of a section (inline, or the stream dictionary).
RecCount(s) == Cardinality({n \in ObjNums : s.recs[n] # NoRec})
SectionDict(s) ==
    [k \in TrailerKeys |->
        CASE k = "Root" -> 1
          [] k = "Size" -> RecCount(s) + 1
          [] k = "Encrypt" -> IF s.Encrypt THEN 1 ELSE NoKey
          [] k = "Prev" -> IF s.Prev = 0 THEN NoKey ELSE s.Prev]

\* _parse_xref_table: the first non-empty trailer is taken whole, later ones
\* only add the keys that are missing.
MergeTableTrailer(t, d) ==
    IF t = EmptyTrailer THEN d
    ELSE [k \in TrailerKeys |-> IF t[k] = NoKey THEN d[k] ELSE t[k]]

\* _parse_xref_stream: only Root, Info, ID, Size, Encrypt are taken over.
MergeStreamTrailer(t, d) ==
    [k \in TrailerKeys |->
        IF k \in {"Root", "Size", "Encrypt"} /\ t[k] = NoKey THEN d[k] ELSE t[k]]

\* -------------------------------------------------------------- objects
\* A parsed value: a dictionary ("value"), an object-stream dictionary with
\* its payload ("objstm", pairs = the object numbers of its header), an
\* object taken out of an object stream ("embedded"), or no value.
Value(tag, addr, idx, pairs) ==
    [tag |-> tag, addr |-> addr, idx |-> idx, pairs |-> pairs]
Absent == Value("absent", 0, 0, <<>>)

\* The bytes at an address: "num gen obj" followed by a body.
Obj(num, gen, body, pairs) ==
    [num |-> num, gen |-> gen, body |-> body, pairs |-> pairs]
UnreadObj == Obj(0, 0, "unread", <<>>)

\* _parse_object_at(offset, expected_obj, expected_gen): the value, or
\* Absent with raised = TRUE when one of its checks, the lexer or
\* _parse_dict / _parse_array raises.
ParseObjectAt(b, a, expected_obj, expected_gen) ==
    IF b.num # expected_obj THEN [raised |-> TRUE, value |-> Absent]
    ELSE IF b.gen # expected_gen THEN [raised |-> TRUE, value |-> Absent]
    ELSE IF b.body = "noobj" THEN [raised |-> TRUE, value |-> Absent]
    ELSE IF b.body \in {"eof_dict", "eof_array"}
         THEN [raised |-> TRUE, value |-> Absent]
    ELSE [raised |-> FALSE, value |-> Value(b.body, a, 0, b.pairs)]

\* _parse_object_stream(stream_obj): the list of (obj_num, obj_value), empty
\* unless the dictionary has Type ObjStm.
ParseObjectStream(v) ==
    IF v.tag # "objstm" THEN <<>>
    ELSE [i \in 1..Len(v.pairs) |->
            [obj_num |-> v.pairs[i], value |-> Value("embedded", v.addr, i - 1, <<>>)]]

\* _parse_object_stream raises: StreamDecoder.decode on the payload, or
\* int() on a header token.
ObjectStreamRaises(v) == v.tag = "objstm_raises"

\* "except Exception as e: pass" around a call of _parse_object_stream
\* that raised: nothing is cached, the call is counted.
RaisedInStream(st, stream_num) ==
    [st EXCEPT !.decoded[stream_num] = @ + 1]

NotCached == [cached |-> FALSE, objs |-> <<>>]

\* --------------------------------------------------------------- inputs
Tails == {"no_eof", "no_startxref", "no_offset", "bad_offset", "ok"}

Section(kind, recs, prev, encrypt) ==
    [kind |-> kind, recs |-> recs, Prev |-> prev, Encrypt |-> encrypt]
UnreadSection == Section("unread", [n \in ObjNums |-> NoRec], 0, FALSE)

\* The sections a run may find at offset o.
\*   "chain":   an incrementally updated file: Prev, if any, is the offset of
\*              a section that lies before this one; any set of records.
\*   "cycle":   Prev is any offset, also this one or a later one; the trailer
\*              may hold Encrypt; the bytes may be no section at all.
\*   "objects": one section whose records are all in use or compressed.
SectionInputs(class, o) ==
    CASE class = "chain" ->
            {Section("table", r, p, FALSE) :
                r \in [ObjNums -> {NoRec, 0, 1}], p \in 0..(o - 1)}
            \cup {Section("stream", r, p, FALSE) :
                r \in [ObjNums -> {NoRec, 0, 2}], p \in 0..(o - 1)}
      [] class = "cycle" ->
            {Section(k, [n \in ObjNums |-> 1], p, e) :
                k \in {"table", "stream"}, p \in 0..MaxSections, e \in BOOLEAN}
            \cup {Section("garbage", [n \in ObjNums |-> NoRec], 0, FALSE)}
      [] class \in {"objects", "reparse"} ->
            {Section("table", [n \in ObjNums |-> 1], 0, FALSE)}
            \cup {Section("stream", r, 0, FALSE) : r \in [ObjNums -> {1, 2}]}

\* The object numbers an object-stream header may list: each at most once.
Distinct(q) ==
    \A i, j \in 1..Len(q) : i # j => q[i] # q[j]
ObjStmHeaders ==
    {q \in UNION {[1..k -> ObjNums] : k \in 0..MaxObj} : Distinct(q)}

\* The bytes a run may find where object n is said to be.  "reparse": a
\* dictionary, an object stream with any header, or no object.  "members": object
\* 1 is an object stream with any header, an object stream whose payload
\* does not decode or whose header is no list of numbers ("objstm_raises"),
\* or a dictionary that is no object stream.
ObjInputs(class, n) ==
    IF class = "objects"
    THEN {Obj(n, 0, b, <<>>) : b \in {"value", "noobj", "eof_dict", "eof_array"}}
         \cup {Obj(m, 0, "value", <<>>) : m \in ObjNums \ {n}}
         \cup {Obj(n, 1, "value", <<>>)}
         \cup {Obj(n, 0, "objstm", q) : q \in ObjStmHeaders}
    ELSE IF class = "reparse"
    THEN {Obj(n, 0, b, <<>>) : b \in {"value", "noobj"}}
         \cup {Obj(n, 0, "objstm", q) : q \in ObjStmHeaders}
    ELSE IF class = "members" /\ n = 1
    THEN {Obj(n, 0, "objstm", q) :
            q \in UNION {[1..k -> Members \ {1}] : k \in 0..MaxMembers}}
         \cup {Obj(n, 0, b, <<>>) : b \in {"objstm_raises", "value"}}
    ELSE {Obj(n, 0, "value", <<>>)}

\* The entries the first loop of _parse_all_objects parses.
Uncompressed(x) == {n \in DOMAIN x : x[n].in_use /\ ~x[n].compressed}

\* The bytes of the objects the first loop reads, one choice per object
\* number up to n.
RECURSIVE ObjBytesInputs(_, _, _)
ObjBytesInputs(class, x, n) ==
    IF n = 0 THEN {<<>>}
    ELSE {Append(b, c) :
            b \in ObjBytesInputs(class, x, n - 1),
            c \in (IF n \in Uncompressed(x) THEN ObjInputs(class, n)
                   ELSE {UnreadObj})}

\* ------------------------------------------------------------ PDFParser
InitParse ==
    /\ inputClass \in {"chain", "cycle", "objects"}
    /\ header \in BOOLEAN
    /\ tail \in Tails
    /\ startxref \in Offsets
    /\ sections = [o \in Offsets |-> UnreadSection]
    /\ objBytes = [n \in ObjNums |-> UnreadObj]
    /\ pc = "header"
    /\ err = ""
    /\ version = ""
    /\ xref = [n \in ObjNums |-> NoEntry]
    /\ xrefOrder = <<>>
    /\ trailer = EmptyTrailer
    /\ objects = [n \in ObjNums |-> Absent]
    /\ cache = [n \in ObjNums |-> NotCached]
    /\ pending = 0
    /\ depth = 0
    /\ visits = [o \in Offsets |-> 0]
    /\ decoded = [n \in ObjNums |-> 0]
    /\ stream = Unused
    /\ document = Unused
    /\ call = "none"
    /\ returned = Unused
    /\ StepsUnused

Raise(e) == pc' = "failed" /\ err' = e

\* _parse_header
ParseHeader ==
    /\ pc = "header"
    /\ IF header
       THEN /\ version' = "1.4"
            /\ pc' = "trailer"
            /\ err' = err
       ELSE /\ Raise("MalformedHeader")
            /\ version' = version
    /\ UNCHANGED <<queryVars, stepVars>>
    /\ UNCHANGED <<inputClass, header, tail, startxref, sections, objBytes, xref,
                   xrefOrder, trailer, objects, cache, pending, depth, visits,
                   decoded>>

\* What _parse_trailer_and_xref raises before it reaches _parse_xref_at.
TrailerError(t) ==
    CASE t = "no_eof" -> "MissingTrailer"
      [] t = "no_startxref" -> "MissingTrailer"
      [] t = "no_offset" -> "IndexError"
      [] t = "bad_offset" -> "ValueError"
      [] t = "ok" -> ""

\* _parse_trailer_and_xref up to its call of _parse_xref_at
ParseTrailer ==
    /\ pc = "trailer"
    /\ IF TrailerError(tail) = ""
       THEN /\ pending' = startxref
            /\ depth' = 1
            /\ pc' = "xref"
            /\ err' = err
       ELSE /\ Raise(TrailerError(tail))
            /\ UNCHANGED <<pending, depth>>
    /\ UNCHANGED <<queryVars, stepVars>>
    /\ UNCHANGED <<inputClass, header, tail, startxref, sections, objBytes,
                   version, xref, xrefOrder, trailer, objects, cache, visits,
                   decoded>>

\* _parse_xref_at(pending): _parse_xref_table or _parse_xref_stream on the
\* section at that offset, up to the recursive call for its Prev.
ParseXrefAt ==
    /\ pc = "xref"
    /\ IF depth > RecursionLimit
       THEN /\ Raise("RecursionError")
            /\ UNCHANGED <<sections, visits, xref, xrefOrder, trailer, pending,
                           depth>>
       ELSE \E s \in (IF sections[pending] = UnreadSection
                      THEN SectionInputs(inputClass, pending)
                      ELSE {sections[pending]}) :
            /\ sections' = [sections EXCEPT ![pending] = s]
            /\ visits' = [visits EXCEPT ![pending] = @ + 1]
            /\ IF s.kind = "garbage"
               THEN /\ Raise("MissingCrossReference")
                    /\ UNCHANGED <<xref, xrefOrder, trailer, pending, depth>>
               ELSE /\ xref' = MergeSection(xref, pending, s, 1)
                    /\ xrefOrder' = MergeOrder(xref, xrefOrder, s, 1)
                    /\ trailer' = IF s.kind = "table"
                                  THEN MergeTableTrailer(trailer, SectionDict(s))
                                  ELSE MergeStreamTrailer(trailer, SectionDict(s))
                    /\ err' = err
                    /\ IF s.Prev # 0
                       THEN /\ pending' = s.Prev
                            /\ depth' = depth + 1
                            /\ pc' = pc
                       ELSE /\ pending' = 0
                            /\ depth' = 0
                            /\ pc' = "objects"
    /\ UNCHANGED <<queryVars, stepVars>>
    /\ UNCHANGED <<inputClass, header, tail, startxref, objBytes, version,
                   objects, cache, decoded>>

\* UncompressedPass with the try around the loop instead of inside it: the
\* first exception ends the loop.
RECURSIVE UncompressedPassUntilRaise(_, _, _, _)
UncompressedPassUntilRaise(x, b, n, objs) ==
    IF n > MaxObj THEN objs
    ELSE IF n \notin Uncompressed(x)
    THEN UncompressedPassUntilRaise(x, b, n + 1, objs)
    ELSE LET r == ParseObjectAt(b[n], x[n].offset, n, x[n].gen_num)
         IN IF r.raised THEN objs
            ELSE UncompressedPassUntilRaise(x, b, n + 1,
                                            [objs EXCEPT ![n] = r.value])
UncompressedPassAbort(x, b) ==
    UncompressedPassUntilRaise(x, b, 1, [n \in ObjNums |-> Absent])

\* The first loop of _parse_all_objects: every in-use, uncompressed entry
\* is parsed at its offset; an exception leaves that object out.
UncompressedPass(x, b) ==
    [n \in DOMAIN x |->
        IF n \in Uncompressed(x)
        THEN LET r == ParseObjectAt(b[n], x[n].offset, n, x[n].gen_num)
             IN IF r.raised THEN Absent ELSE r.value
        ELSE Absent]

\* The bytes at the offsets of the uncompressed entries: what the first
\* parse of the buffer found there is there for every later parse.
BufferObjBytes(class, x, read) ==
    IF \E n \in DOMAIN read : read[n] # UnreadObj
    THEN {read}
    ELSE ObjBytesInputs(class, x, Len(x))

\* The cache of an earlier call of _parse_all_objects, kept.
SharedCache(c) == c

\* obj_stream_cache = {}: a local of _parse_all_objects, empty at each
\* call.
ObjStreamCache(c) == [n \in DOMAIN c |-> NotCached]

\* The first loop of _parse_all_objects.
ParseUncompressed ==
    /\ pc = "objects"
    /\ \E b \in BufferObjBytes(inputClass, xref, objBytes) :
        /\ objBytes' = b
        /\ objects' = UncompressedPass(xref, b)
    /\ cache' = ObjStreamCache(cache)
    /\ pc' = "compressed"
    /\ UNCHANGED <<queryVars, stepVars>>
    /\ UNCHANGED <<inputClass, header, tail, startxref, sections, err, version,
                   xref, xrefOrder, trailer, pending, depth, visits, decoded>>

\* The second loop of _parse_all_objects from its i-th entry on: st holds
\* document.objects, obj_stream_cache and the count of object-stream decodes.
RECURSIVE CompressedPass(_, _, _, _)
CompressedPass(x, ord, i, st) ==
    IF i > Len(ord) THEN st
    ELSE LET n == ord[i]
             entry == x[n]
             stream_num == entry.offset
             stream_idx == entry.gen_num
         IN IF ~entry.in_use \/ ~entry.compressed
            THEN CompressedPass(x, ord, i + 1, st)
            ELSE IF ~st.cache[stream_num].cached /\ st.objects[stream_num].tag = "absent"
            THEN CompressedPass(x, ord, i + 1, st)
            ELSE IF ~st.cache[stream_num].cached /\ ObjectStreamRaises(st.objects[stream_num])
            THEN CompressedPass(x, ord, i + 1,
                                RaisedInStream(st, stream_num))
            ELSE LET hit == st.cache[stream_num].cached
                     stream_objects ==
                         IF hit THEN st.cache[stream_num].objs
                         ELSE ParseObjectStream(st.objects[stream_num])
                 IN CompressedPass(x, ord, i + 1,
                     [objects |-> IF stream_idx < Len(stream_objects)
                                  THEN [st.objects EXCEPT ![n] =
                                           stream_objects[stream_idx + 1].value]
                                  ELSE st.objects,
                      cache |-> [st.cache EXCEPT ![stream_num] =
                                    [cached |-> TRUE, objs |-> stream_objects]],
                      decoded |-> IF hit THEN st.decoded
                                  ELSE [st.decoded EXCEPT ![stream_num] = @ + 1]])

\* The second loop, after which parse() returns the document.
ParseCompressed ==
    /\ pc = "compressed"
    /\ LET st == CompressedPass(xref, xrefOrder, 1,
                    [objects |-> objects, cache |-> cache, decoded |-> decoded])
       IN /\ objects' = st.objects
          /\ cache' = st.cache
          /\ decoded' = st.decoded
    /\ pc' = "done"
    /\ UNCHANGED <<queryVars, stepVars>>
    /\ UNCHANGED <<inputClass, header, tail, startxref, sections, objBytes, err,
                   version, xref, xrefOrder, trailer, pending, depth, visits>>

NextParse ==
    \/ ParseHeader
    \/ ParseTrailer
    \/ ParseXrefAt
    \/ ParseUncompressed
    \/ ParseCompressed

SpecParse == InitParse /\ [][NextParse]_vars

\* ======================================================= StreamDecoder
\* Bytes are sequences of 0..255.  A decode call ends with the bytes or
\* with the exception it raised.
Ok(data) == [ok |-> TRUE, data |-> data, err |-> ""]
Err(e) == [ok |-> FALSE, data |-> <<>>, err |-> e]

Min(a, b) == IF a < b THEN a ELSE b
Max(a, b) == IF a > b THEN a ELSE b

\* Python's s[a:b] for 0 <= a.
Slice(s, a, b) == SubSeq(s, a + 1, Min(b, Len(s)))
\* Python's s[a:].
From(s, a) == SubSeq(s, a + 1, Len(s))

\* bytes(b for b in data if b not in b' \t\n\r')
RECURSIVE StripWhite(_)
StripWhite(d) ==
    IF d = <<>> THEN <<>>
    ELSE IF Head(d) \in {32, 9, 10, 13} THEN StripWhite(Tail(d))
    ELSE <<Head(d)>> \o StripWhite(Tail(d))

\* int(c, 16) of one ASCII character, -1 if it is no hex digit.
HexVal(c) ==
    IF c \in 48..57 THEN c - 48
    ELSE IF c \in 65..70 THEN c - 55
    ELSE IF c \in 97..102 THEN c - 87
    ELSE -1

\* bytes.fromhex of an even number of characters.
RECURSIVE FromHex(_)
FromHex(d) ==
    IF d = <<>> THEN <<>>
    ELSE <<16 * HexVal(d[1]) + HexVal(d[2])>> \o FromHex(From(d, 2))

\* StreamDecoder.decode_asciihex
DecodeAsciiHex(data) ==
    LET d1 == StripWhite(data)
        d2 == IF d1 # <<>> /\ d1[Len(d1)] = 62 THEN Slice(d1, 0, Len(d1) - 1) ELSE d1
        d3 == IF Len(d2) % 2 = 1 THEN Append(d2, 48) ELSE d2
    IN IF \E i \in 1..Len(d3) : HexVal(d3[i]) < 0 THEN Err("ValueError")
       ELSE Ok(FromHex(d3))

\* data[i:i + 1] * count
Repeat(b, count) == [k \in 1..count |-> b]

\* RunLengthFrom with a repeat run one byte short (256 - length copies).
RECURSIVE RunLengthFromShort(_, _, _)
RunLengthFromShort(data, i, result) ==
    IF i >= Len(data) THEN result
    ELSE LET length == data[i + 1]
         IN IF length = 128 THEN result
            ELSE IF length < 128
            THEN RunLengthFromShort(data, i + 1 + length + 1,
                                    result \o Slice(data, i + 1, i + 1 + length + 1))
            ELSE RunLengthFromShort(data, i + 2,
                                    result \o (IF i + 1 < Len(data)
                                               THEN Repeat(data[i + 2], 256 - length)
                                               ELSE <<>>))

\* StreamDecoder.decode_runlength, from index i with result so far.
RECURSIVE RunLengthFrom(_, _, _)
RunLengthFrom(data, i, result) ==
    IF i >= Len(data) THEN result
    ELSE LET length == data[i + 1]
         IN IF length = 128 THEN result
            ELSE IF length < 128
            THEN RunLengthFrom(data, i + 1 + length + 1,
                               result \o Slice(data, i + 1, i + 1 + length + 1))
            ELSE RunLengthFrom(data, i + 2,
                               result \o (IF i + 1 < Len(data)
                                          THEN Repeat(data[i + 2], 257 - length)
                                          ELSE <<>>))

DecodeRunLength(data) == Ok(RunLengthFrom(data, 0, <<>>))

\* A group's value is held as five base-256 digits, most significant
\* first, so that it never leaves the range of the checker's integers;
\* value.to_bytes(4, 'big') is its last four digits and overflows when
\* the first is not zero.
ToBytes4(value) == SubSeq(value, 2, 5)

\* value * 85 + add on the digits, from the least significant one.
RECURSIVE MulAdd85(_, _, _)
MulAdd85(value, k, carry) ==
    IF k = 0 THEN value
    ELSE LET t == value[k] * 85 + carry
         IN MulAdd85([value EXCEPT ![k] = t % 256], k - 1, t \div 256)

\* value = value * 85 + (c - 33) over the five characters of a group.
RECURSIVE Base85(_, _)
Base85(chunk, value) ==
    IF chunk = <<>> THEN value
    ELSE Base85(Tail(chunk), MulAdd85(value, 5, Head(chunk) - 33))

\* StreamDecoder.decode_ascii85, from index i with result so far.
RECURSIVE Ascii85From(_, _, _)
Ascii85From(data, i, result) ==
    IF i >= Len(data) THEN Ok(result)
    ELSE IF data[i + 1] = 122
    THEN Ascii85From(data, i + 1, result \o <<0, 0, 0, 0>>)
    ELSE LET chunk == Slice(data, i, i + 5)
             chunk_len == Len(chunk)
             padded == chunk \o Repeat(117, 5 - chunk_len)
             value == Base85(padded, <<0, 0, 0, 0, 0>>)
         IN IF \E k \in 1..5 : padded[k] < 33 \/ padded[k] > 117
            THEN Err("ValueError")
            ELSE IF value[1] # 0 THEN Err("OverflowError")
            ELSE Ascii85From(data, i + chunk_len,
                    result \o (IF chunk_len < 5
                               THEN Slice(ToBytes4(value), 0, chunk_len - 1)
                               ELSE ToBytes4(value)))

DecodeAscii85(data) ==
    LET d1 == StripWhite(data)
        d2 == IF Len(d1) >= 2 /\ d1[Len(d1) - 1] = 126 /\ d1[Len(d1)] = 62
              THEN Slice(d1, 0, Len(d1) - 2) ELSE d1
    IN Ascii85From(d2, 0, <<>>)

\* ---------------------------------------------------------------- zlib
\* zlib.adler32 of a byte string, as its two 16-bit halves.
RECURSIVE Adler(_, _, _)
Adler(d, a, b) ==
    IF d = <<>> THEN <<b \div 256, b % 256, a \div 256, a % 256>>
    ELSE Adler(Tail(d), (a + Head(d)) % 65521, (b + ((a + Head(d)) % 65521)) % 65521)
Adler32(d) == Adler(d, 1, 0)

\* zlib.decompress(data, -15) on a raw deflate stream made of stored blocks
\* (BTYPE 00): the bytes and the number of bytes consumed; ok = FALSE is
\* zlib.error.  Compressed block types are not enumerated.
RECURSIVE InflateStored(_, _, _)
InflateStored(d, i, out) ==
    IF Len(d) < i + 5 \/ d[i + 1] \notin {0, 1} THEN [ok |-> FALSE, data |-> <<>>, used |-> 0]
    ELSE LET len == d[i + 2] + 256 * d[i + 3]
             nlen == d[i + 4] + 256 * d[i + 5]
         IN IF len + nlen # 65535 \/ Len(d) < i + 5 + len
            THEN [ok |-> FALSE, data |-> <<>>, used |-> 0]
            ELSE IF d[i + 1] = 1
            THEN [ok |-> TRUE, data |-> out \o Slice(d, i + 5, i + 5 + len),
                  used |-> i + 5 + len]
            ELSE InflateStored(d, i + 5 + len, out \o Slice(d, i + 5, i + 5 + len))

\* zlib.decompress(data): a two-byte header (deflate, no preset dictionary,
\* check bits), the deflate stream and the Adler-32 of the output.
ZlibDecompress(d) ==
    IF Len(d) < 2 \/ d[1] % 16 # 8 \/ d[1] \div 16 > 7
       \/ (256 * d[1] + d[2]) % 31 # 0 \/ (d[2] \div 32) % 2 = 1
    THEN Err("zlib.error")
    ELSE LET r == InflateStored(From(d, 2), 0, <<>>)
         IN IF ~r.ok THEN Err("zlib.error")
            ELSE IF Slice(d, 2 + r.used, 2 + r.used + 4) # Adler32(r.data)
            THEN Err("zlib.error")
            ELSE Ok(r.data)

RawDecompress(d) ==
    LET r == InflateStored(d, 0, <<>>)
    IN IF r.ok THEN Ok(r.data) ELSE Err("zlib.error")

\* zlib.compress(x) at level 0: one stored block (len(x) < 256).
ZlibCompress(x) ==
    <<120, 1, 1, Len(x), 0, 255 - Len(x), 255>> \o x \o Adler32(x)

\* ----------------------------------------------------------- predictors
\* StreamDecoder._paeth
Abs(v) == IF v < 0 THEN -v ELSE v
Paeth(a, b, c) ==
    LET q == a + b - c
        pa == Abs(q - a)
        pb == Abs(q - b)
        pc_ == Abs(q - c)
    IN IF pa <= pb /\ pa <= pc_ THEN a
       ELSE IF pb <= pc_ THEN b
       ELSE c

\* The loops over j of one PNG row: row[j] is rewritten in place, from
\* index j on (0-based).
RECURSIVE PngRow(_, _, _, _, _)
PngRow(row, prev_row, filter_type, bpp, j) ==
    IF j >= Len(row) THEN row
    ELSE LET left == IF j >= bpp THEN row[j - bpp + 1] ELSE 0
             up == prev_row[j + 1]
             up_left == IF j >= bpp THEN prev_row[j - bpp + 1] ELSE 0
             add == CASE filter_type = 1 -> row[j - bpp + 1]
                      [] filter_type = 2 -> up
                      [] filter_type = 3 -> (left + up) \div 2
                      [] filter_type = 4 -> Paeth(left, up, up_left)
         IN PngRow([row EXCEPT ![j + 1] = (row[j + 1] + add) % 256],
                   prev_row, filter_type, bpp, j + 1)

\* The while loop of the PNG branch, from index i.
RECURSIVE PngRows(_, _, _, _, _, _)
PngRows(data, i, row_size, bpp, prev_row, result) ==
    IF i >= Len(data) THEN result
    ELSE LET filter_type == data[i + 1]
             raw == Slice(data, i + 1, i + 1 + row_size)
             row == IF filter_type = 1 THEN PngRow(raw, prev_row, 1, bpp, bpp)
                    ELSE IF filter_type \in {2, 3, 4}
                    THEN PngRow(raw, prev_row, filter_type, bpp, 0)
                    ELSE raw
         IN PngRows(data, i + 1 + row_size, row_size, bpp, row, result \o row)

\* The inner loop of the TIFF branch on one row.
RECURSIVE TiffRow(_, _, _)
TiffRow(row, step, i) ==
    IF i >= Len(row) THEN row
    ELSE TiffRow([row EXCEPT ![i + 1] = (row[i + 1] + row[i - step + 1]) % 256],
                 step, i + 1)

RECURSIVE TiffRows(_, _, _, _, _)
TiffRows(data, row_start, row_size, step, result) ==
    IF row_start >= Len(data) THEN result
    ELSE TiffRows(data, row_start + row_size, row_size, step,
                  result \o TiffRow(Slice(data, row_start, row_start + row_size),
                                    step, step))

\* StreamDecoder._apply_predictor
ApplyPredictor(data, predictor, columns, colors, bits) ==
    IF predictor = 1 THEN Ok(data)
    ELSE IF predictor = 2
    THEN IF (columns * colors * bits) \div 8 = 0 THEN Err("ValueError")
         ELSE Ok(TiffRows(data, 0, (columns * colors * bits) \div 8,
                          (colors * bits) \div 8, <<>>))
    ELSE IF predictor >= 10
    THEN LET bytes_per_pixel == (colors * bits) \div 8
             row_size == columns * bytes_per_pixel
         IN Ok(PngRows(data, 0, row_size, bytes_per_pixel,
                       Repeat(0, row_size), <<>>))
    ELSE Ok(data)

\* DecodeParms: a dictionary with Predictor, Columns, Colors and
\* BitsPerComponent, or no dictionary.
Parms(predictor, columns, colors, bits) ==
    [empty |-> FALSE, Predictor |-> predictor, Columns |-> columns,
     Colors |-> colors, BitsPerComponent |-> bits]
NoParms == [empty |-> TRUE, Predictor |-> 1, Columns |-> 1, Colors |-> 1,
            BitsPerComponent |-> 8]

\* The "Predictor 처리" tail of decode_flate and decode_lzw.
WithPredictor(r, params) ==
    IF ~r.ok \/ params.empty \/ params.Predictor <= 1 THEN r
    ELSE ApplyPredictor(r.data, params.Predictor, params.Columns,
                        params.Colors, params.BitsPerComponent)

\* StreamDecoder.decode_flate
DecodeFlate(data, params) ==
    LET z == ZlibDecompress(data)
    IN WithPredictor(IF z.ok THEN z ELSE RawDecompress(data), params)

\* ------------------------------------------------------------------ LZW
RECURSIVE Pow2(_)
Pow2(n) == IF n = 0 THEN 1 ELSE 2 * Pow2(n - 1)

\* The local variables of decode_lzw.  table holds the entries from code
\* 258 on (codes 0..255 are the single bytes); prev_seq = <<>> stands for
\* None; bit_buffer keeps only its bits_in_buffer low bits, the ones still
\* read; code is the code read last (-1 before the first); at says where
\* the function is: at the test of its outer loop, after the loop, or at
\* its raise statement.
LzwInit ==
    [table |-> <<>>, next_code |-> 258, code_bits |-> 9, result |-> <<>>,
     bit_buffer |-> 0, bits_in_buffer |-> 0, pos |-> 0, prev_seq |-> <<>>,
     code |-> -1, at |-> "while"]

\* "while bits_in_buffer < code_bits and pos < len(data)"
RECURSIVE LzwFill(_, _)
LzwFill(data, st) ==
    IF st.bits_in_buffer < st.code_bits /\ st.pos < Len(data)
    THEN LzwFill(data, [st EXCEPT !.bit_buffer = @ * 256 + data[st.pos + 1],
                                  !.bits_in_buffer = @ + 8,
                                  !.pos = @ + 1])
    ELSE st

\* "if code in table" for a code that is neither 256 nor 257.
LzwInTable(st, code) == code < 256 \/ (code >= 258 /\ code - 257 <= Len(st.table))
LzwEntry(st, code) == IF code < 256 THEN <<code>> ELSE st.table[code - 257]

\* "table[next_code] = ...; next_code += 1" with the width raised one code
\* early, when next_code + 1 reaches 1 << code_bits.
LzwAddEarly(st, seq) ==
    IF st.prev_seq # <<>> /\ st.next_code < 4096
    THEN [st EXCEPT !.table = Append(@, Append(st.prev_seq, seq[1])),
                    !.next_code = @ + 1,
                    !.code_bits = IF st.next_code + 2 >= Pow2(@) /\ @ < 12
                                  THEN @ + 1 ELSE @]
    ELSE st

\* "if prev_seq and next_code < 4096: table[next_code] = prev_seq +
\* seq[0:1]; next_code += 1; if next_code >= (1 << code_bits) and
\* code_bits < 12: code_bits += 1"
LzwAdd(st, seq) ==
    IF st.prev_seq # <<>> /\ st.next_code < 4096
    THEN [st EXCEPT !.table = Append(@, Append(st.prev_seq, seq[1])),
                    !.next_code = @ + 1,
                    !.code_bits = IF st.next_code + 1 >= Pow2(@) /\ @ < 12
                                  THEN @ + 1 ELSE @]
    ELSE st

\* From the extracted code to the end of the loop body.
LzwCode(st, code) ==
    IF code = 256
    THEN [st EXCEPT !.table = <<>>, !.next_code = 258, !.code_bits = 9,
                    !.prev_seq = <<>>]
    ELSE IF code = 257 THEN [st EXCEPT !.at = "break"]
    ELSE IF ~LzwInTable(st, code) /\ ~(code = st.next_code /\ st.prev_seq # <<>>)
    THEN [st EXCEPT !.at = "raise"]
    ELSE Once(IF LzwInTable(st, code) THEN LzwEntry(st, code)
              ELSE Append(st.prev_seq, st.prev_seq[1]),
              LAMBDA seq : [LzwAdd([st EXCEPT !.result = @ \o seq], seq)
                               EXCEPT !.prev_seq = seq])

\* One pass of the outer loop of StreamDecoder.decode_lzw: its test, the
\* filling of the bit buffer, the extraction of a code and the body.
LzwNext(data, st0) ==
    IF st0.pos >= Len(data) THEN [st0 EXCEPT !.at = "break"]
    ELSE Once(LzwFill(data, st0), LAMBDA st :
           IF st.bits_in_buffer < st.code_bits THEN [st EXCEPT !.at = "break"]
           ELSE Once(st.bits_in_buffer - st.code_bits, LAMBDA rest :
                  Once((st.bit_buffer \div Pow2(rest)) % Pow2(st.code_bits),
                       LAMBDA code :
                         LzwCode([st EXCEPT !.bit_buffer = @ % Pow2(rest),
                                            !.bits_in_buffer = rest,
                                            !.code = code], code))))

\* The outer loop of StreamDecoder.decode_lzw, to its end.
RECURSIVE LzwLoop(_, _)
LzwLoop(data, st) ==
    IF st.at = "while" THEN LzwLoop(data, LzwNext(data, st))
    ELSE IF st.at = "raise" THEN Err("ValueError")
    ELSE Ok(st.result)

\* StreamDecoder.decode_lzw
DecodeLzw(data, params) == WithPredictor(LzwLoop(data, LzwInit), params)

\* ------------------------------------------------------------- decode
\* ApplyFilter with the CCITTFaxDecode branch and the else branch passing
\* the bytes on as the DCTDecode and JPXDecode branches do.
ApplyFilterPassing(filter_name, result, params) ==
    CASE filter_name = "FlateDecode" -> DecodeFlate(result, params)
      [] filter_name = "ASCII85Decode" -> DecodeAscii85(result)
      [] filter_name = "ASCIIHexDecode" -> DecodeAsciiHex(result)
      [] filter_name = "LZWDecode" -> DecodeLzw(result, params)
      [] filter_name = "RunLengthDecode" -> DecodeRunLength(result)
      [] OTHER -> Ok(result)

\* The if/elif chain of StreamDecoder.decode for one filter name.
ApplyFilter(filter_name, result, params) ==
    CASE filter_name = "FlateDecode" -> DecodeFlate(result, params)
      [] filter_name = "ASCII85Decode" -> DecodeAscii85(result)
      [] filter_name = "ASCIIHexDecode" -> DecodeAsciiHex(result)
      [] filter_name = "LZWDecode" -> DecodeLzw(result, params)
      [] filter_name = "RunLengthDecode" -> DecodeRunLength(result)
      [] filter_name = "DCTDecode" -> Ok(result)
      [] filter_name = "JPXDecode" -> Ok(result)
      [] filter_name = "CCITTFaxDecode" -> Err("NotImplementedError")
      [] OTHER -> Err("ValueError")

\* DecodeFrom with the filter list walked from its last name to its first.
RECURSIVE DecodeFromReversed(_, _, _, _)
DecodeFromReversed(result, filters, i, params) ==
    IF i > Len(filters) THEN Ok(result)
    ELSE LET r == ApplyFilter(filters[Len(filters) + 1 - i], result, params)
         IN IF r.ok THEN DecodeFromReversed(r.data, filters, i + 1, params)
            ELSE r

\* "for filter_name in filters", from the i-th name on.
RECURSIVE DecodeFrom(_, _, _, _)
DecodeFrom(result, filters, i, params) ==
    IF i > Len(filters) THEN Ok(result)
    ELSE LET r == ApplyFilter(filters[i], result, params)
         IN IF r.ok THEN DecodeFrom(r.data, filters, i + 1, params) ELSE r

\* The value of a Filter key: one name, an array of names, or no key.
FilterName(name) == [kind |-> "name", name |-> name, names |-> <<>>]
FilterArray(names) == [kind |-> "array", name |-> "", names |-> names]
NoFilter == [kind |-> "none", name |-> "", names |-> <<>>]

\* "if isinstance(filters, str): filters = [filters]"
AsList(filters) ==
    IF filters.kind = "name" THEN <<filters.name>> ELSE filters.names

\* StreamDecoder.decode(data, filters, params)
StreamDecoderDecode(data, filters, params) ==
    DecodeFrom(data, AsList(filters), 1, params)

\* A stream object: the dictionary keys that matter and _stream_data.
StreamObj(data, filters, parms) ==
    [has_data |-> TRUE, data |-> data, Filter |-> filters, DecodeParms |-> parms]
NoStreamData == [has_data |-> FALSE, data |-> <<>>, Filter |-> NoFilter,
                 DecodeParms |-> NoParms]

\* decode_stream(doc, stream_obj) of litparser/__init__.py
DecodeStream(stream_obj) ==
    IF ~stream_obj.has_data THEN Ok(<<>>)
    ELSE IF AsList(stream_obj.Filter) = <<>> THEN Ok(stream_obj.data)
    ELSE StreamDecoderDecode(stream_obj.data, FilterArray(AsList(stream_obj.Filter)),
                             NoParms)

\* The "스트림 디코딩" lines of _parse_object_stream: the bytes in which the
\* header and the objects of an object stream are looked up.
ObjectStreamData(stream_obj) ==
    IF ~stream_obj.has_data THEN Ok(<<>>)
    ELSE IF AsList(stream_obj.Filter) = <<>> THEN Ok(stream_obj.data)
    ELSE StreamDecoderDecode(stream_obj.data, stream_obj.Filter, NoParms)

\* ------------------------------------------------- calls on stream objects
\* Longest _stream_data before compression, longest Filter array, widest row.
MaxLen == 4
MaxChain == 2
MaxColumns == 3

SeqsUpTo(S, n) == UNION {[1..k -> S] : k \in 0..n}

\* Every name StreamDecoder.decode tells apart, and one it does not know.
FilterNames ==
    {"FlateDecode", "ASCII85Decode", "ASCIIHexDecode", "LZWDecode",
     "RunLengthDecode", "DCTDecode", "JPXDecode", "CCITTFaxDecode", "Crypt"}

\* ------------------------------------------------------ standard encoders
\* What a PDF writer produces for the three text filters; the decoders
\* are run on these.  A payload is encoded in every way the format allows.
\* ASCIIHexDecode: two digits a byte, either case, then '>'.
RECURSIVE HexOf(_, _)
HexOf(x, letters) ==
    IF x = <<>> THEN <<>>
    ELSE LET hi == Head(x) \div 16
             lo == Head(x) % 16
         IN <<IF hi < 10 THEN 48 + hi ELSE letters + hi,
              IF lo < 10 THEN 48 + lo ELSE letters + lo>> \o HexOf(Tail(x), letters)

AsciiHexEncodings(x) == {Append(HexOf(x, letters), 62) : letters \in {55, 87}}

\* RunLengthDecode: any split of x into literal runs (length byte n - 1)
\* and repeat runs of one byte (length byte 257 - n), then the marker 128.
RECURSIVE RunLengthRuns(_)
RunLengthRuns(x) ==
    IF x = <<>> THEN {<<>>}
    ELSE UNION {
           {run \o rest : rest \in RunLengthRuns(From(x, n)),
                          run \in {<<n - 1>> \o Slice(x, 0, n)} \cup
                                  (IF n >= 2 /\ \A k \in 1..n : x[k] = x[1]
                                   THEN {<<257 - n, x[1]>>} ELSE {})}
           : n \in 1..Min(Len(x), 128)}

RunLengthEncodings(x) == {Append(e, 128) : e \in RunLengthRuns(x)}

\* ASCII85Decode: the five base-85 digits of a group of four bytes, most
\* significant first, found by long division of its base-256 digits.
RECURSIVE ToBase85(_, _)
ToBase85(group, n) ==
    IF n = 0 THEN <<>>
    ELSE LET t2 == (group[1] % 85) * 256 + group[2]
             t3 == (t2 % 85) * 256 + group[3]
             t4 == (t3 % 85) * 256 + group[4]
         IN Append(ToBase85(<<group[1] \div 85, t2 \div 85, t3 \div 85, t4 \div 85>>,
                            n - 1),
                   33 + (t4 % 85))

\* Full groups as five digits ('z' or '!!!!!' for four zero bytes), a last
\* group of n < 4 bytes as the first n + 1 digits of its zero-padded value.
RECURSIVE Ascii85Groups(_)
Ascii85Groups(x) ==
    IF x = <<>> THEN {<<>>}
    ELSE IF Len(x) < 4
    THEN {Slice(ToBase85(x \o Repeat(0, 4 - Len(x)), 5), 0, Len(x) + 1)}
    ELSE {g \o rest : rest \in Ascii85Groups(From(x, 4)),
                      g \in {ToBase85(Slice(x, 0, 4), 5)} \cup
                            (IF Slice(x, 0, 4) = <<0, 0, 0, 0>> THEN {<<122>>} ELSE {})}

Ascii85Encodings(x) == {e \o <<126, 62>> : e \in Ascii85Groups(x)}

Encodings(filter_name, x) ==
    CASE filter_name = "ASCII85Decode" -> Ascii85Encodings(x)
      [] filter_name = "ASCIIHexDecode" -> AsciiHexEncodings(x)
      [] filter_name = "RunLengthDecode" -> RunLengthEncodings(x)

\* The payloads encoded for a filter: zero bytes (a 'z' group), 255 (the
\* largest group value) and 128 (a data byte equal to the RunLength marker).
Payloads(filter_name) ==
    SeqsUpTo(IF filter_name = "RunLengthDecode" THEN {0, 128} ELSE {0, 255}, MaxLen)

TextFilters == {"ASCII85Decode", "ASCIIHexDecode", "RunLengthDecode"}

\* -------------------------------------------------------- PNG filtering
\* What a writer does to rows of data before compression: each row is
\* replaced by its filter type and the differences, modulo 256, between
\* its bytes and their predictions from the byte bpp places to the left,
\* the byte above and the byte above that one (0 where there is none).
MaxRows == 2

FilterRow(raw, prior, filter_type, bpp) ==
    [j \in 1..Len(raw) |->
        LET left == IF j > bpp THEN raw[j - bpp] ELSE 0
            up == prior[j]
            up_left == IF j > bpp THEN prior[j - bpp] ELSE 0
            predicted == CASE filter_type = 0 -> 0
                           [] filter_type = 1 -> left
                           [] filter_type = 2 -> up
                           [] filter_type = 3 -> (left + up) \div 2
                           [] filter_type = 4 -> Paeth(left, up, up_left)
        IN (raw[j] + 256 - predicted) % 256]

\* The rows of x, row_size bytes each, filtered with the types given row
\* by row.
RECURSIVE PngFilter(_, _, _, _)
PngFilter(x, types, row_size, bpp) ==
    IF types = <<>> THEN <<>>
    ELSE LET n == Len(types)
             raw == SubSeq(x, (n - 1) * row_size + 1, n * row_size)
             prior == IF n = 1 THEN Repeat(0, row_size)
                      ELSE SubSeq(x, (n - 2) * row_size + 1, (n - 1) * row_size)
         IN PngFilter(x, SubSeq(types, 1, n - 1), row_size, bpp)
            \o <<types[n]>> \o FilterRow(raw, prior, types[n], bpp)

\* The bytes of a row and of a pixel for Columns, Colors and
\* BitsPerComponent: a pixel of less than a byte counts as one byte.
RowBytes(params) == (params.Columns * params.Colors * params.BitsPerComponent) \div 8
PixelBytes(params) == Max(1, (params.Colors * params.BitsPerComponent) \div 8)

\* "png": up to MaxRows whole rows of the bytes 3 and 200, each row under
\* any of the filter types 0..4, for one or two pixels of one byte, one
\* pixel of two bytes, and two pixels of four bits.
PngInputs ==
    UNION {UNION {{StreamObj(PngFilter(x, types, RowBytes(p), PixelBytes(p)),
                             NoFilter, p) :
                      x \in [1..(rows * RowBytes(p)) -> {3, 200}],
                      types \in [1..rows -> 0..4]}
                  : rows \in 1..MaxRows}
           : p \in {Parms(15, 1, 1, 8), Parms(15, 2, 1, 8), Parms(15, 1, 2, 8),
                    Parms(15, 2, 1, 4)}}

\* Stream dictionaries of a run.  "predictor": Flate data of PNG- or
\* TIFF-filtered rows, with and without DecodeParms.  "chain": short text
\* data ('1', '4', '>') under every Filter value up to MaxChain names.
\* "encoded": a payload under one text filter, in each of its encodings.
\* "png": PNG-filtered rows with their DecodeParms.
StreamInputs(class) ==
    IF class = "encoded"
    THEN {StreamObj(e[2], FilterName(e[1]), NoParms) :
             e \in UNION {{<<n, d>> : d \in UNION {Encodings(n, x) : x \in Payloads(n)}}
                          : n \in TextFilters}}
    ELSE IF class = "png" THEN PngInputs
    ELSE IF class = "predictor"
    THEN {StreamObj(ZlibCompress(x), f, p) :
             x \in SeqsUpTo({1, 4, 200}, MaxLen),
             f \in {FilterName("FlateDecode"), FilterArray(<<"FlateDecode">>)},
             p \in {NoParms} \cup
                   {Parms(pr, c, 1, 8) : pr \in {2, 12, 15}, c \in 1..MaxColumns}}
    ELSE {NoStreamData} \cup
         {StreamObj(x, f, NoParms) :
             x \in SeqsUpTo({49, 52, 62}, MaxLen),
             f \in {NoFilter} \cup {FilterName(n) : n \in FilterNames}
                   \cup {FilterArray(ns) : ns \in SeqsUpTo(FilterNames, MaxChain)}}

ParseUnused ==
    /\ header = FALSE
    /\ tail = "ok"
    /\ startxref = 1
    /\ sections = [o \in Offsets |-> UnreadSection]
    /\ objBytes = [n \in ObjNums |-> UnreadObj]
    /\ pc = "unused"
    /\ err = ""
    /\ version = ""
    /\ xref = [n \in ObjNums |-> NoEntry]
    /\ xrefOrder = <<>>
    /\ trailer = EmptyTrailer
    /\ objects = [n \in ObjNums |-> Absent]
    /\ cache = [n \in ObjNums |-> NotCached]
    /\ pending = 0
    /\ depth = 0
    /\ visits = [o \in Offsets |-> 0]
    /\ decoded = [n \in ObjNums |-> 0]

InitDecode ==
    /\ inputClass \in {"predictor", "chain", "encoded", "png"}
    /\ stream \in StreamInputs(inputClass)
    /\ document = Unused
    /\ call = "none"
    /\ returned = Unused
    /\ StepsUnused
    /\ ParseUnused

\* StreamDecoder.decode(_stream_data, Filter, DecodeParms)
Decode ==
    /\ call = "none"
    /\ stream.has_data
    /\ call' = "decode"
    /\ returned' = StreamDecoderDecode(stream.data, stream.Filter,
                                       stream.DecodeParms)
    /\ UNCHANGED <<stream, document, stepVars, parseVars>>

\* decode_stream(doc, stream_obj)
DecodeStreamCall ==
    /\ call = "none"
    /\ call' = "decode_stream"
    /\ returned' = DecodeStream(stream)
    /\ UNCHANGED <<stream, document, stepVars, parseVars>>

\* _parse_object_stream(stream_obj), up to the decoded stream data
ParseObjectStreamData ==
    /\ call = "none"
    /\ call' = "_parse_object_stream"
    /\ returned' = ObjectStreamData(stream)
    /\ UNCHANGED <<stream, document, stepVars, parseVars>>

\* StreamDecoder._apply_predictor(data, predictor, columns, colors, bits)
\* on filtered rows
ApplyPredictorCall ==
    /\ call = "none"
    /\ inputClass = "png"
    /\ call' = "_apply_predictor"
    /\ returned' = ApplyPredictor(stream.data, stream.DecodeParms.Predictor,
                                  stream.DecodeParms.Columns,
                                  stream.DecodeParms.Colors,
                                  stream.DecodeParms.BitsPerComponent)
    /\ UNCHANGED <<stream, document, stepVars, parseVars>>

NextDecode ==
    \/ Decode
    \/ DecodeStreamCall
    \/ ParseObjectStreamData
    \/ ApplyPredictorCall

SpecDecode == InitDecode /\ [][NextDecode]_vars

\* --------------------------------------------- decode_lzw, pass by pass
\* Longest run of freely chosen codes.
MaxCodes == 4

\* Bits, most significant first, packed into bytes; the last byte is
\* filled up with zero bits.
Bit(bits, p) == IF p <= Len(bits) THEN bits[p] ELSE 0
PackBits(bits) ==
    [i \in 1..((Len(bits) + 7) \div 8) |->
        128 * Bit(bits, 8 * i - 7) + 64 * Bit(bits, 8 * i - 6)
        + 32 * Bit(bits, 8 * i - 5) + 16 * Bit(bits, 8 * i - 4)
        + 8 * Bit(bits, 8 * i - 3) + 4 * Bit(bits, 8 * i - 2)
        + 2 * Bit(bits, 8 * i - 1) + Bit(bits, 8 * i)]

\* Codes written with one width.
CodesBits(codes, width) ==
    [p \in 1..(Len(codes) * width) |->
        (codes[1 + ((p - 1) \div width)] \div Pow2(width - 1 - ((p - 1) % width))) % 2]

\* A run of n literal codes 'B', 'A', 'B', ... from a fresh table, each
\* written with the width the decoder reads it with: the k-th code is read
\* when next_code is 256 + k, so width w > 9 starts at code (1 << (w - 1)) - 256.
WidthStart(w) == IF w = 9 THEN 1 ELSE Pow2(w - 1) - 256
FirstBit(k) ==
    9 * (k - 1) + Max(0, k - WidthStart(10)) + Max(0, k - WidthStart(11))
    + Max(0, k - WidthStart(12))
WidthOfCode(k) == 9 + Cardinality({w \in 10..12 : k >= WidthStart(w)})
CodeAtBit(p) ==
    LET w == CHOOSE v \in 9..12 :
                 /\ FirstBit(WidthStart(v)) <= p
                 /\ \A u \in 9..12 : FirstBit(WidthStart(u)) <= p => u <= v
    IN WidthStart(w) + ((p - FirstBit(WidthStart(w))) \div w)
Literal(k) == 65 + (k % 2)
LiteralBits(n) ==
    [q \in 1..FirstBit(n + 1) |->
        LET k == CodeAtBit(q - 1)
        IN (Literal(k) \div Pow2(WidthOfCode(k) - 1 - (q - 1 - FirstBit(k)))) % 2]

\* The number of codes after which a fresh table is full (next_code = 4096).
FillsTable == 4096 - 257

\* LZW data of a run.  "codes": up to MaxCodes nine-bit codes, among them
\* clear-table, end-of-data, table codes, the next free code and a code
\* beyond it.  "full": literal codes until the table is full, followed by
\* twelve-bit codes; and literal codes into the ten-bit range followed by
\* clear-table and nine-bit codes, the last of them not yet defined.
LzwInputs(class) ==
    IF class = "codes"
    THEN {PackBits(CodesBits(codes, 9)) :
            codes \in SeqsUpTo({65, 256, 257, 258, 259, 300}, MaxCodes)}
    ELSE {PackBits(LiteralBits(FillsTable) \o CodesBits(<<4095, 65, 257, 66>>, 12)),
          PackBits(LiteralBits(300) \o CodesBits(<<256>>, 10)
                   \o CodesBits(<<65, 66, 258, 260, 300>>, 9))}

InitLzw ==
    /\ inputClass \in {"codes", "full"}
    /\ stream \in {StreamObj(d, FilterName("LZWDecode"), NoParms) :
                     d \in LzwInputs(inputClass)}
    /\ document = Unused
    /\ call = "none"
    /\ returned = Unused
    /\ StepsUnused
    /\ ParseUnused

\* decode_lzw(data, params) up to its outer loop
LzwEnter ==
    /\ call = "none"
    /\ call' = "decode_lzw"
    /\ lzw' = LzwInit
    /\ UNCHANGED <<stream, document, returned, interp, parseVars>>

\* one pass of the outer loop
LzwPass ==
    /\ call = "decode_lzw"
    /\ lzw.at = "while"
    /\ lzw' = LzwNext(stream.data, lzw)
    /\ UNCHANGED <<stream, document, call, returned, interp, parseVars>>

\* "raise ValueError(f"Invalid LZW code: {code}")"
LzwRaise ==
    /\ call = "decode_lzw"
    /\ lzw.at = "raise"
    /\ returned = Unused
    /\ returned' = Err("ValueError")
    /\ UNCHANGED <<stream, document, call, lzw, interp, parseVars>>

\* the predictor and "return bytes(result)"
LzwReturn ==
    /\ call = "decode_lzw"
    /\ lzw.at = "break"
    /\ returned = Unused
    /\ returned' = WithPredictor(Ok(lzw.result), stream.DecodeParms)
    /\ UNCHANGED <<stream, document, call, lzw, interp, parseVars>>

NextLzw ==
    \/ LzwEnter
    \/ LzwPass
    \/ LzwRaise
    \/ LzwReturn

SpecLzw == InitLzw /\ [][NextLzw]_vars

\* ------------------------------------------------- queries on a document
\* Objects are named by what the document keeps under their number.  A
\* reference is such a name; Missing names a number the object table does
\* not hold, NoRef says that the key is absent.
Missing == "missing"
NoRef == ""
IsRef(v) == v # NoRef

\* A dictionary object and the keys the queries read.
DictObj ==
    [Type |-> "", Pages |-> NoRef, Kids |-> <<>>, Count |-> 0,
     Contents |-> NoRef, Resources |-> NoRef, Font |-> NoRef, F1 |-> NoRef,
     ToUnicode |-> NoRef, stream |-> NoStreamData]
None == [DictObj EXCEPT !.Type = "None"]

\* doc.objects.get((ref.obj_num, ref.gen_num))
Get(doc, ref) ==
    IF ref \in DOMAIN doc.objects THEN doc.objects[ref] ELSE None

\* doc.objects.get((ref.obj_num, ref.gen_num), {})
GetOrEmpty(doc, ref) ==
    IF ref \in DOMAIN doc.objects THEN doc.objects[ref] ELSE DictObj

\* What a query raised (err) or returned, with the font_map and all_text
\* it built on the way and the page_num it was called with.
Returned ==
    [err |-> "", page_num |-> 0, count |-> 0, pages |-> <<>>, items |-> <<>>,
     fonts |-> {}, all_text |-> <<>>, text |-> <<>>]
Raised(e) == [Returned EXCEPT !.err = e]

\* get_page_count
GetPageCount(doc) ==
    IF ~IsRef(doc.trailer.Root) THEN 0
    ELSE LET catalog == Get(doc, doc.trailer.Root)
         IN IF catalog = None \/ ~IsRef(catalog.Pages) THEN 0
            ELSE LET pages == Get(doc, catalog.Pages)
                 IN IF pages = None THEN 0 ELSE pages.Count

\* collect_pages(node_ref) of get_pages, at nesting level and CollectKids,
\* its loop over Kids from the i-th entry on.  The interpreter ends a
\* nesting deeper than RecursionLimit with RecursionError.
RECURSIVE CollectPages(_, _, _)
RECURSIVE CollectKids(_, _, _, _, _)
CollectPages(doc, node_ref, level) ==
    IF level > RecursionLimit THEN Raised("RecursionError")
    ELSE IF ~IsRef(node_ref) THEN Returned
    ELSE LET node == Get(doc, node_ref)
         IN IF node = None THEN Returned
            ELSE IF node.Type = "Page"
            THEN [Returned EXCEPT !.pages = <<node_ref>>]
            ELSE IF node.Type = "Pages"
            THEN CollectKids(doc, node.Kids, 1, level, <<>>)
            ELSE Returned
CollectKids(doc, kids, i, level, acc) ==
    IF i > Len(kids) THEN [Returned EXCEPT !.pages = acc]
    ELSE Once(CollectPages(doc, kids[i], level + 1),
              LAMBDA r : IF r.err # "" THEN r
                         ELSE CollectKids(doc, kids, i + 1, level,
                                          acc \o r.pages))

\* get_pages: the page objects, named by their references.
GetPages(doc) ==
    IF ~IsRef(doc.trailer.Root) THEN Returned
    ELSE LET catalog == Get(doc, doc.trailer.Root)
         IN IF catalog = None \/ ~IsRef(catalog.Pages) THEN Returned
            ELSE IF Get(doc, catalog.Pages) = None THEN Returned
            ELSE CollectPages(doc, catalog.Pages, 1)

\* The font loop of _build_font_map on the one entry F1 of a font
\* dictionary: the names put into font_map, or what decode_stream raised.
FontLoop(doc, fonts) ==
    IF ~IsRef(fonts.F1) THEN Returned
    ELSE LET font_obj == Get(doc, fonts.F1)
         IN IF font_obj = None THEN Returned
            ELSE LET tounicode_obj == Get(doc, font_obj.ToUnicode)
                     cmap_data == DecodeStream(tounicode_obj.stream)
                 IN IF /\ IsRef(font_obj.ToUnicode)
                       /\ tounicode_obj # None
                       /\ tounicode_obj.stream.has_data
                       /\ ~cmap_data.ok
                    THEN Raised(cmap_data.err)
                    ELSE [Returned EXCEPT !.fonts = {"F1"}]

\* _build_font_map with plain doc.objects.get(...) lookups: a dangling
\* Resources or Font reference gives None, and None has no get.
BuildFontMapNoDefault(doc, page) ==
    LET resources == IF IsRef(page.Resources) THEN Get(doc, page.Resources)
                     ELSE DictObj
    IN IF resources = None THEN Raised("AttributeError")
       ELSE LET fonts == IF IsRef(resources.Font) THEN Get(doc, resources.Font)
                         ELSE DictObj
            IN IF fonts = None THEN Raised("AttributeError")
               ELSE FontLoop(doc, fonts)

\* _build_font_map
BuildFontMap(doc, page) ==
    LET resources == IF IsRef(page.Resources)
                     THEN GetOrEmpty(doc, page.Resources) ELSE DictObj
        fonts == IF IsRef(resources.Font)
                 THEN GetOrEmpty(doc, resources.Font) ELSE DictObj
    IN FontLoop(doc, fonts)

\* _detect_coordinate_direction with "return False" for fewer than two
\* items.
DetectTopDownDefault(text_items) ==
    IF Len(text_items) < 2 THEN FALSE
    ELSE LET sample_size == Min(Len(text_items) - 1, 50)
             diff(i) == text_items[i + 1].y - text_items[i].y
             vote_bottom_up == Cardinality({i \in 1..sample_size :
                                              Abs(diff(i)) > 5 /\ diff(i) < 0})
             vote_top_down == Cardinality({i \in 1..sample_size :
                                             Abs(diff(i)) > 5 /\ diff(i) >= 0})
         IN vote_bottom_up > vote_top_down

\* _detect_coordinate_direction: TRUE for bottom-up.  The votes are taken
\* over the pairs of neighbours of the first 51 items, in the order the
\* items come in.
DetectCoordinateDirection(text_items) ==
    IF Len(text_items) < 2 THEN TRUE
    ELSE LET sample_size == Min(Len(text_items) - 1, 50)
             diff(i) == text_items[i + 1].y - text_items[i].y
             vote_bottom_up == Cardinality({i \in 1..sample_size :
                                              Abs(diff(i)) > 5 /\ diff(i) < 0})
             vote_top_down == Cardinality({i \in 1..sample_size :
                                             Abs(diff(i)) > 5 /\ diff(i) >= 0})
         IN vote_bottom_up > vote_top_down

\* "raw_items[0].y" in the place of the maximum
MaxYOfFirst(raw_items) == raw_items[1].y

\* "max(t.y for t in raw_items)"
MaxY(raw_items) ==
    CHOOSE m \in {raw_items[i].y : i \in DOMAIN raw_items} :
        \A i \in DOMAIN raw_items : raw_items[i].y <= m

\* "scale = max_y / 842.0" and the three divisions by it; the coordinates
\* of this model are such that the quotients are whole numbers.
Rescaled(raw_items, max_y) ==
    [i \in DOMAIN raw_items |->
        [raw_items[i] EXCEPT !.x = (@ * 842) \div max_y,
                             !.y = (@ * 842) \div max_y,
                             !.font_size = (@ * 842) \div max_y]]

\* "item.y = max_y - item.y"
Flipped(raw_items, max_y) ==
    [i \in DOMAIN raw_items |-> [raw_items[i] EXCEPT !.y = max_y - @]]

\* The items left in the order they came in.
NotSorted(items) == items

\* "raw_items.sort(key=lambda t: (t.y, t.x))": the sort is stable.
RECURSIVE SortedByYX(_)
SortedByYX(items) ==
    IF items = <<>> THEN <<>>
    ELSE LET rest == SortedByYX(SubSeq(items, 1, Len(items) - 1))
             last == items[Len(items)]
             k == Cardinality({i \in DOMAIN rest :
                                 \/ rest[i].y < last.y
                                 \/ rest[i].y = last.y /\ rest[i].x <= last.x})
         IN SubSeq(rest, 1, k) \o <<last>> \o SubSeq(rest, k + 1, Len(rest))

\* The normalisation of extract_text_with_positions, from "if not
\* raw_items" to the final sort.
Normalize(raw_items) ==
    IF raw_items = <<>> THEN <<>>
    ELSE LET is_bottom_up == DetectCoordinateDirection(raw_items)
             large == MaxY(raw_items) > 1500
             scaled == IF large THEN Rescaled(raw_items, MaxY(raw_items))
                       ELSE raw_items
             max_y == IF large THEN 842 ELSE MaxY(raw_items)
         IN SortedByYX(IF is_bottom_up THEN Flipped(scaled, max_y) ELSE scaled)

\* The bytes of "BT (s) Tj ET", the content streams of this model.
ShowText(s) == <<66, 84, 32, 40>> \o s \o <<41, 32, 84, 106, 32, 69, 84>>

\* ContentStreamParser.parse on such a stream: one TextItem, at the
\* origin, with the bytes between the parentheses; nothing on other bytes.
ContentStreamParse(data) ==
    IF /\ Len(data) >= 11
       /\ SubSeq(data, 1, 4) = <<66, 84, 32, 40>>
       /\ SubSeq(data, Len(data) - 6, Len(data)) = <<41, 32, 84, 106, 32, 69, 84>>
    THEN <<[text |-> SubSeq(data, 5, Len(data) - 7), x |-> 0, y |-> 0]>>
    ELSE <<>>

\* extract_text_with_positions, for a Contents that is one reference;
\* PageItems is its part after the page is picked.
PageItems(doc, page) ==
    LET contents_obj == Get(doc, page.Contents)
    IN Once(BuildFontMap(doc, page), LAMBDA font_map :
           IF font_map.err # "" THEN font_map
           ELSE Once(IF IsRef(page.Contents) /\ contents_obj # None
                     THEN DecodeStream(contents_obj.stream) ELSE Ok(<<>>),
                     LAMBDA content_stream :
                        IF ~content_stream.ok THEN Raised(content_stream.err)
                        ELSE [Returned EXCEPT
                                 !.fonts = font_map.fonts,
                                 !.items = Normalize(ContentStreamParse(
                                               content_stream.data))]))
ExtractTextWithPositions(doc, page_num) ==
    Once(GetPages(doc), LAMBDA pages :
        IF pages.err # "" THEN pages
        ELSE IF page_num >= Len(pages.pages) THEN Returned
        ELSE PageItems(doc, Get(doc, pages.pages[page_num + 1])))

\* The texts of the items, one after the other: extract_text's lines and
\* words for items that all sit at the origin.
RECURSIVE Words(_)
Words(items) ==
    IF items = <<>> THEN <<>> ELSE Head(items).text \o Words(Tail(items))

\* extract_text
ExtractText(doc, page_num) ==
    Once(ExtractTextWithPositions(doc, page_num), LAMBDA items :
        IF items.err # "" THEN items
        ELSE [Returned EXCEPT !.text = Words(items.items)])

\* str(n) in ASCII
RECURSIVE Str(_)
Str(n) == IF n < 10 THEN <<48 + n>> ELSE Str(n \div 10) \o <<48 + (n % 10)>>

\* sep.join(parts)
RECURSIVE Join(_, _)
Join(parts, sep) ==
    IF parts = <<>> THEN <<>>
    ELSE IF Len(parts) = 1 THEN parts[1]
    ELSE parts[1] \o sep \o Join(Tail(parts), sep)

\* f"--- Page {i+1} ---\n{text}"
PageSection(i, text) ==
    <<45, 45, 45, 32, 80, 97, 103, 101, 32>> \o Str(i + 1)
        \o <<32, 45, 45, 45, 10>> \o text

\* The loop of extract_all_text from page i on.
RECURSIVE AllTextFrom(_, _, _, _)
AllTextFrom(doc, i, page_count, all_text) ==
    IF i >= page_count
    THEN [Returned EXCEPT !.count = page_count, !.all_text = all_text,
                          !.text = Join(all_text, <<10, 10>>)]
    ELSE Once(ExtractText(doc, i), LAMBDA t :
             IF t.err # "" THEN t
             ELSE AllTextFrom(doc, i + 1, page_count,
                      IF t.text # <<>>
                      THEN Append(all_text, PageSection(i, t.text))
                      ELSE all_text))

\* extract_all_text
ExtractAllText(doc) == AllTextFrom(doc, 0, GetPageCount(doc), <<>>)

\* The page loop of the PDF branch of parse(), from page_num on: every
\* page's text is appended, empty or not.
RECURSIVE ParsePagesFrom(_, _, _, _)
ParsePagesFrom(doc, page_num, page_count, all_text) ==
    IF page_num >= page_count
    THEN [Returned EXCEPT !.count = page_count, !.all_text = all_text,
                          !.text = Join(all_text, <<10, 10>>)]
    ELSE Once(ExtractText(doc, page_num), LAMBDA t :
             IF t.err # "" THEN t
             ELSE ParsePagesFrom(doc, page_num + 1, page_count,
                                 Append(all_text, t.text)))

\* parse(), PDF branch, on the document parse_pdf returned: page_count
\* and text of the ParseResult.
ParsePdf(doc) == ParsePagesFrom(doc, 0, GetPageCount(doc), <<>>)

\* ----------------------------------------------------- documents of a run
\* Longest Kids array.
MaxKids == 2

SeqsFrom(S, lo, hi) == UNION {[1..k -> S] : k \in lo..hi}

PlainStream(s) == StreamObj(ShowText(s), NoFilter, NoParms)

\* Content streams: plain, Flate, no data, and three that do not decode
\* (a filter the decoder does not know, one it does not implement, and
\* Flate over bytes that are no zlib data).
ContentInputs(s) ==
    {PlainStream(s),
     StreamObj(ZlibCompress(ShowText(s)), FilterName("FlateDecode"), NoParms),
     NoStreamData,
     StreamObj(ShowText(s), FilterName("Crypt"), NoParms),
     StreamObj(ShowText(s), FilterArray(<<"CCITTFaxDecode">>), NoParms),
     StreamObj(ShowText(s), FilterName("FlateDecode"), NoParms)}

\* The object table of a two-level page tree with two pages, the first
\* with a font that has a ToUnicode stream.
Objects(root_kids, node_kids, a, b, res, contentA, contentB, tounicode) ==
    [k \in {"catalog", "pages", "node", "pageA", "pageB", "contentA",
            "contentB", "resources", "fonts", "font", "tounicode"} |->
        CASE k = "catalog" ->
                 [DictObj EXCEPT !.Type = "Catalog", !.Pages = a.Pages]
          [] k = "pages" ->
                 [DictObj EXCEPT !.Type = "Pages", !.Kids = root_kids,
                                 !.Count = Len(root_kids)]
          [] k = "node" ->
                 [DictObj EXCEPT !.Type = "Pages", !.Kids = node_kids,
                                 !.Count = Len(node_kids)]
          [] k = "pageA" ->
                 [DictObj EXCEPT !.Type = "Page", !.Contents = a.Contents,
                                 !.Resources = res.Resources]
          [] k = "pageB" ->
                 [DictObj EXCEPT !.Type = "Page", !.Contents = b.Contents]
          [] k = "contentA" -> [DictObj EXCEPT !.stream = contentA]
          [] k = "contentB" -> [DictObj EXCEPT !.stream = contentB]
          [] k = "resources" -> [DictObj EXCEPT !.Font = res.Font]
          [] k = "fonts" -> [DictObj EXCEPT !.F1 = res.F1]
          [] k = "font" ->
                 [DictObj EXCEPT !.Type = "Font", !.ToUnicode = res.ToUnicode]
          [] k = "tounicode" -> [DictObj EXCEPT !.stream = tounicode]]

Sound == [Pages |-> "pages", Contents |-> "contentA"]
SoundB == [Contents |-> "contentB"]
SoundRes ==
    [Resources |-> "resources", Font |-> "fonts", F1 |-> "font",
     ToUnicode |-> "tounicode"]

\* "dangling": a flat tree in which any reference may name a number the
\* table does not hold.  "cycle": Kids arrays that may lead back to their
\* node or to the root.  "streams": a sound tree over streams that may
\* fail to decode.
DocInputs(class) ==
    CASE class = "dangling" ->
            {[trailer |-> [Root |-> root],
              objects |-> Objects(kids, <<>>, [Pages |-> p, Contents |-> ca],
                                  [Contents |-> cb],
                                  [Resources |-> r, Font |-> f, F1 |-> f1,
                                   ToUnicode |-> tu],
                                  PlainStream(<<65>>), PlainStream(<<66>>),
                                  PlainStream(<<>>))] :
                root \in {"catalog", Missing},
                p \in {"pages", Missing},
                kids \in SeqsFrom({"pageA", "pageB", Missing}, 1, MaxKids),
                ca \in {"contentA", Missing},
                cb \in {"contentB", Missing},
                r \in {"resources", Missing, NoRef},
                f \in {"fonts", Missing, NoRef},
                f1 \in {"font", Missing},
                tu \in {"tounicode", Missing, NoRef}}
      [] class = "cycle" ->
            {[trailer |-> [Root |-> "catalog"],
              objects |-> Objects(kids, node_kids, Sound, SoundB, SoundRes,
                                  PlainStream(<<65>>), PlainStream(<<66>>),
                                  PlainStream(<<>>))] :
                kids \in SeqsFrom({"pages", "node", "pageA"}, 1, MaxKids),
                node_kids \in SeqsFrom({"pages", "node", "pageB"}, 0, MaxKids)}
      [] class = "streams" ->
            {[trailer |-> [Root |-> "catalog"],
              objects |-> Objects(<<"pageA", "pageB">>, <<>>, Sound, SoundB,
                                  SoundRes, ca, cb, tu)] :
                ca \in ContentInputs(<<65>>),
                cb \in ContentInputs(<<66>>),
                tu \in {PlainStream(<<>>),
                        StreamObj(<<120>>, FilterArray(<<"FlateDecode">>),
                                  NoParms)}}

InitDoc ==
    /\ inputClass \in {"dangling", "cycle", "streams"}
    /\ document \in DocInputs(inputClass)
    /\ stream = Unused
    /\ call = "none"
    /\ returned = Unused
    /\ StepsUnused
    /\ ParseUnused

\* get_page_count(doc)
GetPageCountCall ==
    /\ call = "none"
    /\ call' = "get_page_count"
    /\ returned' = [Returned EXCEPT !.count = GetPageCount(document)]
    /\ UNCHANGED <<stream, document, stepVars, parseVars>>

\* get_pages(doc)
GetPagesCall ==
    /\ call = "none"
    /\ call' = "get_pages"
    /\ returned' = GetPages(document)
    /\ UNCHANGED <<stream, document, stepVars, parseVars>>

\* extract_text_with_positions(doc, page_num)
ExtractTextWithPositionsCall ==
    /\ call = "none"
    /\ \E page_num \in 0..MaxKids :
        /\ call' = "extract_text_with_positions"
        /\ returned' = [ExtractTextWithPositions(document, page_num)
                           EXCEPT !.page_num = page_num]
    /\ UNCHANGED <<stream, document, stepVars, parseVars>>

\* extract_all_text(doc)
ExtractAllTextCall ==
    /\ call = "none"
    /\ call' = "extract_all_text"
    /\ returned' = ExtractAllText(document)
    /\ UNCHANGED <<stream, document, stepVars, parseVars>>

\* parse(...) on a PDF, after parse_pdf
ParsePdfCall ==
    /\ call = "none"
    /\ call' = "parse"
    /\ returned' = ParsePdf(document)
    /\ UNCHANGED <<stream, document, stepVars, parseVars>>

NextDoc ==
    \/ GetPageCountCall
    \/ GetPagesCall
    \/ ExtractTextWithPositionsCall
    \/ ExtractAllTextCall
    \/ ParsePdfCall

SpecDoc == InitDoc /\ [][NextDoc]_vars

\* ================================================= ContentStreamParser
\* A CSToken, or the list _collect_array makes of the tokens of an array.
\* A string token carries its bytes, a number its value (whole numbers
\* stand for the floats), a name its text.
NumberToken(n) == [type |-> "NUMBER", num |-> n, name |-> "", bytes |-> <<>>, items |-> <<>>]
NameToken(s) == [type |-> "NAME", num |-> 0, name |-> s, bytes |-> <<>>, items |-> <<>>]
StringToken(b) == [type |-> "STRING", num |-> 0, name |-> "", bytes |-> b, items |-> <<>>]
HexToken(b) == [type |-> "HEX_STRING", num |-> 0, name |-> "", bytes |-> b, items |-> <<>>]
ArrayToken(a) == [type |-> "ARRAY", num |-> 0, name |-> "", bytes |-> <<>>, items |-> a]

\* ContentStreamParser._get_number
GetNumber(item) == IF item.type = "NUMBER" THEN item.num ELSE 0

\* operands[-k]
FromEnd(operands, k) == operands[Len(operands) + 1 - k]

\* [1, 0, 0, 1, 0, 0]
Identity == <<1, 0, 0, 1, 0, 0>>

\* TextState(): a new object whose tm and tlm are the lists tm and tlm.
TextState(tm, tlm) ==
    [font_name |-> "", font_size |-> 12, tm |-> tm, tlm |-> tlm,
     char_spacing |-> 0, word_spacing |-> 0, leading |-> 0,
     horizontal_scale |-> 100, rise |-> 0]

\* TextItem
TextItem(text, x, y, font_name, font_size, char_spacing, word_spacing) ==
    [text |-> text, x |-> x, y |-> y, font_name |-> font_name,
     font_size |-> font_size, char_spacing |-> char_spacing,
     word_spacing |-> word_spacing]

\* The parser after "self.text_items = []; self.state = TextState();
\* self.state_stack = []".  TextState objects and matrix lists live in
\* objs and lists and are named by their index there, so that two names
\* of one list can be told from two equal lists; state and the elements
\* of state_stack name objects, tm and tlm of an object name lists; count
\* is the number of operators executed, op and operands are the arguments
\* of the last call of _execute_operator.
Parser(font_map) ==
    [font_map |-> font_map, objs |-> <<TextState(1, 2)>>,
     lists |-> <<Identity, Identity>>, state |-> 1, state_stack |-> <<>>,
     text_items |-> <<>>, count |-> 0, op |-> "", operands |-> <<>>]

\* self.state
State(p) == p.objs[p.state]

\* TextState.copy with new_state.tm = self.tm and new_state.tlm = self.tlm:
\* the copy shares the two lists.
CopyShared(p) == [p EXCEPT !.objs = Append(@, State(p))]

\* TextState.copy: a new object with copies of the two lists; the new
\* object is the last of objs.
Copy(p) ==
    [p EXCEPT !.lists = @ \o <<p.lists[State(p).tm], p.lists[State(p).tlm]>>,
              !.objs = Append(@, [State(p) EXCEPT !.tm = Len(p.lists) + 1,
                                                  !.tlm = Len(p.lists) + 2])]

\* _move_text without its two assignments to tlm.
MoveTextMatrixOnly(p, tx, ty) ==
    LET tlm == p.lists[State(p).tlm]
    IN [p EXCEPT !.lists[State(p).tm][5] = tlm[5] + tx * tlm[1] + ty * tlm[3],
                 !.lists[State(p).tm][6] = tlm[6] + tx * tlm[2] + ty * tlm[4]]

\* ContentStreamParser._move_text
MoveText(p, tx, ty) ==
    LET tlm == p.lists[State(p).tlm]
        new_x == tlm[5] + tx * tlm[1] + ty * tlm[3]
        new_y == tlm[6] + tx * tlm[2] + ty * tlm[4]
        moved == [p.lists EXCEPT ![State(p).tm][5] = new_x,
                                 ![State(p).tm][6] = new_y]
    IN [p EXCEPT !.lists = [moved EXCEPT ![State(p).tlm][5] = new_x,
                                         ![State(p).tlm][6] = new_y]]

\* bytes.decode('utf-16-be') of an even number of bytes: the code points,
\* or an error for a surrogate that does not stand in a pair.
RECURSIVE Utf16From(_, _)
Utf16From(b, text) ==
    IF b = <<>> THEN Ok(text)
    ELSE LET unit == 256 * b[1] + b[2]
         IN IF unit \in 55296..56319
            THEN IF Len(b) >= 4 /\ (256 * b[3] + b[4]) \in 56320..57343
                 THEN Utf16From(From(b, 4),
                                Append(text, 65536 + 1024 * (unit - 55296)
                                             + (256 * b[3] + b[4] - 56320)))
                 ELSE Err("UnicodeDecodeError")
            ELSE IF unit \in 56320..57343 THEN Err("UnicodeDecodeError")
            ELSE Utf16From(From(b, 2), Append(text, unit))

\* The two-byte branch of _decode_with_cmap from byte i on.
RECURSIVE CmapPairs(_, _, _)
CmapPairs(raw_bytes, cmap, i) ==
    IF i >= Len(raw_bytes) THEN <<>>
    ELSE LET code == 256 * raw_bytes[i + 1] + raw_bytes[i + 2]
         IN (IF code \in DOMAIN cmap THEN cmap[code]
             ELSE (IF raw_bytes[i + 1] \in DOMAIN cmap
                   THEN cmap[raw_bytes[i + 1]] ELSE <<>>)
                  \o (IF raw_bytes[i + 2] \in DOMAIN cmap
                      THEN cmap[raw_bytes[i + 2]] ELSE <<>>))
            \o CmapPairs(raw_bytes, cmap, i + 2)

\* The one-byte branch of _decode_with_cmap.
RECURSIVE CmapBytes(_, _)
CmapBytes(raw_bytes, cmap) ==
    IF raw_bytes = <<>> THEN <<>>
    ELSE (IF Head(raw_bytes) \in DOMAIN cmap THEN cmap[Head(raw_bytes)]
          ELSE <<Head(raw_bytes)>>)
         \o CmapBytes(Tail(raw_bytes), cmap)

\* ContentStreamParser._decode_with_cmap; a text is its code points.
DecodeWithCmap(raw_bytes, cmap) ==
    IF Len(raw_bytes) % 2 = 0 THEN CmapPairs(raw_bytes, cmap, 0)
    ELSE CmapBytes(raw_bytes, cmap)

\* font_info.to_unicode of self.font_map.get(self.state.font_name), the
\* empty map if the name is not in font_map.
ToUnicodeOf(p) ==
    IF State(p).font_name \in DOMAIN p.font_map
    THEN p.font_map[State(p).font_name] ELSE <<>>

\* The UTF-16BE attempt of _decode_text.
DecodeUtf16(raw_bytes) ==
    IF SubSeq(raw_bytes, 1, 2) = <<254, 255>> THEN Utf16From(From(raw_bytes, 2), <<>>)
    ELSE Utf16From(raw_bytes, <<>>)

\* ContentStreamParser._decode_text; latin-1 gives each byte as its code
\* point.
DecodeText(p, raw_bytes, is_hex) ==
    IF raw_bytes = <<>> THEN <<>>
    ELSE IF DOMAIN ToUnicodeOf(p) # {} THEN DecodeWithCmap(raw_bytes, ToUnicodeOf(p))
    ELSE IF is_hex /\ Len(raw_bytes) >= 2 /\ Len(raw_bytes) % 2 = 0
            /\ DecodeUtf16(raw_bytes).ok
    THEN DecodeUtf16(raw_bytes).data
    ELSE raw_bytes

\* The TextItem _show_text and _show_text_array append for a text, the
\* parser as it is if the text is empty.
Emit(p, text, char_spacing, word_spacing) ==
    IF text = <<>> THEN p
    ELSE [p EXCEPT !.text_items =
            Append(@, TextItem(text, p.lists[State(p).tm][5], p.lists[State(p).tm][6],
                               State(p).font_name, State(p).font_size,
                               char_spacing, word_spacing))]

\* ContentStreamParser._show_text for a string token or a list.
ShowTextItem(p, item) ==
    IF item.type \notin {"STRING", "HEX_STRING"} THEN p
    ELSE Emit(p, DecodeText(p, item.bytes, item.type = "HEX_STRING"),
              State(p).char_spacing, State(p).word_spacing)

\* ArrayTexts with a space for every negative number.
RECURSIVE ArrayTextsAnyGap(_, _)
ArrayTextsAnyGap(p, array) ==
    IF array = <<>> THEN <<>>
    ELSE (IF Head(array).type \in {"STRING", "HEX_STRING"}
          THEN DecodeText(p, Head(array).bytes, Head(array).type = "HEX_STRING")
          ELSE IF Head(array).type = "NUMBER" /\ Head(array).num < 0 THEN <<32>>
          ELSE <<>>)
         \o ArrayTextsAnyGap(p, Tail(array))

\* The texts list of _show_text_array, joined.
RECURSIVE ArrayTexts(_, _)
ArrayTexts(p, array) ==
    IF array = <<>> THEN <<>>
    ELSE (IF Head(array).type \in {"STRING", "HEX_STRING"}
          THEN DecodeText(p, Head(array).bytes, Head(array).type = "HEX_STRING")
          ELSE IF Head(array).type = "NUMBER" /\ Head(array).num < -100 THEN <<32>>
          ELSE <<>>)
         \o ArrayTexts(p, Tail(array))

\* ContentStreamParser._show_text_array
ShowTextArray(p, array) ==
    IF array.type # "ARRAY" THEN p
    ELSE Emit(p, ArrayTexts(p, array.items), 0, 0)

\* The branch of _execute_operator for 'q'.
SaveState(p) == [Copy(p) EXCEPT !.state_stack = Append(@, Len(p.objs) + 1)]

\* The branch for 'TD' without "self.state.leading = -ty".
MoveLeadingKept(p, operands) ==
    IF Len(operands) >= 2
    THEN MoveText(p, GetNumber(FromEnd(operands, 2)), GetNumber(FromEnd(operands, 1)))
    ELSE p

\* The branch for 'TD'.
MoveSetLeading(p, operands) ==
    IF Len(operands) >= 2
    THEN MoveText([p EXCEPT !.objs[p.state].leading = -GetNumber(FromEnd(operands, 1))],
                  GetNumber(FromEnd(operands, 2)), GetNumber(FromEnd(operands, 1)))
    ELSE p

\* ContentStreamParser._execute_operator
ExecuteOperator(p, op, operands) ==
    CASE op = "q" -> SaveState(p)
      [] op = "Q" ->
           IF p.state_stack # <<>>
           THEN [p EXCEPT !.state = p.state_stack[Len(p.state_stack)],
                          !.state_stack = SubSeq(@, 1, Len(@) - 1)]
           ELSE p
      [] op = "BT" ->
           [p EXCEPT !.lists = @ \o <<Identity, Identity>>,
                     !.objs[p.state].tm = Len(p.lists) + 1,
                     !.objs[p.state].tlm = Len(p.lists) + 2]
      [] op = "Tf" ->
           IF Len(operands) >= 2
           THEN [p EXCEPT
                   !.objs[p.state].font_name =
                       IF FromEnd(operands, 2).type = "NAME"
                       THEN FromEnd(operands, 2).name ELSE @,
                   !.objs[p.state].font_size =
                       IF FromEnd(operands, 1).type = "NUMBER"
                       THEN FromEnd(operands, 1).num ELSE @]
           ELSE p
      [] op = "Td" ->
           IF Len(operands) >= 2
           THEN MoveText(p, GetNumber(FromEnd(operands, 2)),
                         GetNumber(FromEnd(operands, 1)))
           ELSE p
      [] op = "TD" -> MoveSetLeading(p, operands)
      [] op = "Tm" ->
           IF Len(operands) >= 6
           THEN [p EXCEPT !.lists = @ \o <<[i \in 1..6 |-> GetNumber(operands[i])],
                                          [i \in 1..6 |-> GetNumber(operands[i])]>>,
                          !.objs[p.state].tm = Len(p.lists) + 1,
                          !.objs[p.state].tlm = Len(p.lists) + 2]
           ELSE p
      [] op = "T*" -> MoveText(p, 0, -State(p).leading)
      [] op = "Tc" ->
           IF operands # <<>>
           THEN [p EXCEPT !.objs[p.state].char_spacing = GetNumber(FromEnd(operands, 1))]
           ELSE p
      [] op = "Tw" ->
           IF operands # <<>>
           THEN [p EXCEPT !.objs[p.state].word_spacing = GetNumber(FromEnd(operands, 1))]
           ELSE p
      [] op = "TL" ->
           IF operands # <<>>
           THEN [p EXCEPT !.objs[p.state].leading = GetNumber(FromEnd(operands, 1))]
           ELSE p
      [] op = "Tz" ->
           IF operands # <<>>
           THEN [p EXCEPT !.objs[p.state].horizontal_scale =
                              GetNumber(FromEnd(operands, 1))]
           ELSE p
      [] op = "Ts" ->
           IF operands # <<>>
           THEN [p EXCEPT !.objs[p.state].rise = GetNumber(FromEnd(operands, 1))]
           ELSE p
      [] op = "Tj" ->
           IF operands # <<>> THEN ShowTextItem(p, FromEnd(operands, 1)) ELSE p
      [] op = "TJ" ->
           IF operands # <<>> THEN ShowTextArray(p, FromEnd(operands, 1)) ELSE p
      [] op = "'" ->
           IF operands # <<>>
           THEN ShowTextItem(MoveText(p, 0, -State(p).leading), FromEnd(operands, 1))
           ELSE MoveText(p, 0, -State(p).leading)
      [] op = "\"" ->
           IF Len(operands) >= 3
           THEN ShowTextItem(
                  MoveText([p EXCEPT !.objs[p.state].word_spacing =
                                         GetNumber(FromEnd(operands, 3)),
                                     !.objs[p.state].char_spacing =
                                         GetNumber(FromEnd(operands, 2))],
                           0, -State(p).leading),
                  FromEnd(operands, 1))
           ELSE p
      [] OTHER -> p

\* ------------------------------------------ parse(), operator by operator
\* Most operators of a content stream.
MaxOps == 3

\* font_map: F1 has a ToUnicode map for the codes 'A' and 'AB', F2 an
\* empty one; other names are not in the map.
FontMap ==
    [n \in {"F1", "F2"} |->
        IF n = "F1" THEN (65 :> <<88>>) @@ (16706 :> <<89, 90>>) ELSE <<>>]

\* The operand lists an operator is met with in a run.  "registers": the
\* operators that save, restore and set text-state registers.  "text":
\* fonts with and without a map, moves, and the four operators that show
\* strings, literal and hexadecimal, also with too few operands.
Operands(class, op) ==
    IF class = "registers"
    THEN CASE op \in {"q", "Q", "BT", "ET", "T*"} -> {<<>>}
           [] op = "Tf" -> {<<NameToken("F1"), NumberToken(9)>>}
           [] op = "Td" -> {<<NumberToken(3), NumberToken(4)>>}
           [] op = "TD" -> {<<NumberToken(1), NumberToken(-2)>>}
           [] op = "Tm" -> {<<NumberToken(2), NumberToken(0), NumberToken(0),
                              NumberToken(2), NumberToken(5), NumberToken(6)>>}
           [] op = "Tc" -> {<<NumberToken(1)>>}
           [] op = "Tw" -> {<<NumberToken(2)>>}
           [] op = "TL" -> {<<NumberToken(7)>>}
           [] op = "Tz" -> {<<NumberToken(50)>>}
           [] op = "Ts" -> {<<NumberToken(3)>>}
           [] OTHER -> {}
    ELSE CASE op = "Tf" -> {<<NameToken(n), NumberToken(9)>> : n \in {"F1", "F2"}}
           [] op = "TL" -> {<<NumberToken(7)>>}
           [] op = "Td" -> {<<NumberToken(3), NumberToken(4)>>}
           [] op = "TD" -> {<<NumberToken(1), NumberToken(-2)>>}
           [] op = "T*" -> {<<>>}
           [] op = "Tj" -> {<<StringToken(<<65>>)>>, <<StringToken(<<65, 66, 67>>)>>,
                            <<HexToken(<<0, 65>>)>>, <<HexToken(<<254, 255>>)>>}
           [] op = "TJ" -> {<<ArrayToken(<<StringToken(<<75>>), NumberToken(-20),
                                           StringToken(<<101>>)>>)>>,
                            <<ArrayToken(<<StringToken(<<65>>), NumberToken(-150),
                                           StringToken(<<66>>)>>)>>,
                            <<ArrayToken(<<HexToken(<<254, 255>>)>>)>>,
                            <<ArrayToken(<<StringToken(<<66, 67>>), NumberToken(-100)>>)>>}
           [] op = "'" -> {<<StringToken(<<65>>)>>, <<>>}
           [] op = "\"" -> {<<NumberToken(2), NumberToken(1), StringToken(<<65>>)>>,
                            <<StringToken(<<65>>)>>}
           [] OTHER -> {}

InitContent ==
    /\ inputClass \in {"registers", "text"}
    /\ stream = Unused
    /\ document = Unused
    /\ call = "none"
    /\ returned = Unused
    /\ lzw = Unused
    /\ interp = Unused
    /\ ParseUnused

\* parse(data) up to its loop over the tokens
ParseBegin ==
    /\ call = "none"
    /\ call' = "parse"
    /\ interp' = Parser(FontMap)
    /\ UNCHANGED <<stream, document, returned, lzw, parseVars>>

\* "self._execute_operator(token.value, operand_stack)" for one operator
\* token and the operands met since the operator before.
Execute(op) ==
    /\ call = "parse"
    /\ returned = Unused
    /\ interp.count < MaxOps
    /\ \E operands \in Operands(inputClass, op) :
          interp' = [ExecuteOperator(interp, op, operands)
                        EXCEPT !.count = @ + 1, !.op = op, !.operands = operands]
    /\ UNCHANGED <<stream, document, call, returned, lzw, parseVars>>

OpSave == Execute("q")
OpRestore == Execute("Q")
OpBeginText == Execute("BT")
OpEndText == Execute("ET")
OpFont == Execute("Tf")
OpMove == Execute("Td")
OpMoveSetLeading == Execute("TD")
OpMatrix == Execute("Tm")
OpNextLine == Execute("T*")
OpCharSpacing == Execute("Tc")
OpWordSpacing == Execute("Tw")
OpLeading == Execute("TL")
OpScale == Execute("Tz")
OpRise == Execute("Ts")
OpShow == Execute("Tj")
OpShowArray == Execute("TJ")
OpQuote == Execute("'")
OpDoubleQuote == Execute("\"")

\* "return self.text_items"
ParseReturn ==
    /\ call = "parse"
    /\ returned = Unused
    /\ returned' = [Returned EXCEPT !.items = interp.text_items]
    /\ UNCHANGED <<stream, document, call, lzw, interp, parseVars>>

NextContent ==
    \/ ParseBegin
    \/ OpSave
    \/ OpRestore
    \/ OpBeginText
    \/ OpEndText
    \/ OpFont
    \/ OpMove
    \/ OpMoveSetLeading
    \/ OpMatrix
    \/ OpNextLine
    \/ OpCharSpacing
    \/ OpWordSpacing
    \/ OpLeading
    \/ OpScale
    \/ OpRise
    \/ OpShow
    \/ OpShowArray
    \/ OpQuote
    \/ OpDoubleQuote
    \/ ParseReturn

SpecContent == InitContent /\ [][NextContent]_vars

\* ------------------------------------------------ ToUnicode character maps
\* cmap_data as parse_tounicode_cmap's regular expressions see it: the
\* keywords, the hexadecimal strings <...> (their value and their number
\* of digits) and the brackets, in order; white space separates them.
Keyword(word) == [type |-> word, value |-> 0, digits |-> 0]
Hex(value, digits) == [type |-> "hex", value |-> value, digits |-> digits]
IsHex(content, i) == i <= Len(content) /\ content[i].type = "hex"

\* re.finditer(r'begin...\s*(.*?)\s*end...', text, re.DOTALL): the
\* contents of the blocks from token i on, in order.
RECURSIVE BlockContents(_, _, _, _)
BlockContents(text, begin, end, i) ==
    IF \A j \in i..Len(text) : text[j].type # begin THEN <<>>
    ELSE LET b == CHOOSE j \in i..Len(text) :
                    /\ text[j].type = begin
                    /\ \A k \in i..(j - 1) : text[k].type # begin
         IN IF \A j \in (b + 1)..Len(text) : text[j].type # end THEN <<>>
            ELSE LET e == CHOOSE j \in (b + 1)..Len(text) :
                            /\ text[j].type = end
                            /\ \A k \in (b + 1)..(j - 1) : text[k].type # end
                 IN <<SubSeq(text, b + 1, e - 1)>>
                    \o BlockContents(text, begin, end, e + 1)

\* The bytes of bytes.fromhex(dst), most significant first.
RECURSIVE BytesOf(_, _)
BytesOf(value, n) ==
    IF n = 0 THEN <<>> ELSE Append(BytesOf(value \div 256, n - 1), value % 256)

\* "dst를 유니코드 문자열로 변환": fromhex fails on an odd number of digits,
\* two bytes are decoded as UTF-16BE, others byte by byte.
DstChar(dst) ==
    IF dst.digits % 2 = 1 THEN Err("ValueError")
    ELSE IF dst.digits = 4 THEN Utf16From(BytesOf(dst.value, 2), <<>>)
    ELSE Ok(BytesOf(dst.value, dst.digits \div 2))

\* The bfchar loop over re.findall(r'<src>\s*<dst>', content): pairs of
\* adjacent strings from token i on, a failing pair skipped.
RECURSIVE BfcharPairs(_, _, _)
BfcharPairs(content, i, result) ==
    IF i > Len(content) THEN result
    ELSE IF IsHex(content, i) /\ IsHex(content, i + 1)
    THEN BfcharPairs(content, i + 2,
                     IF DstChar(content[i + 1]).ok
                     THEN (content[i].value :> DstChar(content[i + 1]).data) @@ result
                     ELSE result)
    ELSE BfcharPairs(content, i + 1, result)

\* "for i, code in enumerate(range(start_code, end_code + 1))" of pattern 1
RangeFrom(start_code, end_code, dst_code, result) ==
    [code \in {c \in start_code..end_code : dst_code + (c - start_code) < 65536}
        |-> <<dst_code + (code - start_code)>>] @@ result

\* Pattern 1, re.findall(r'<start>\s*<end>\s*<dst>', content): every three
\* adjacent strings from token i on, wherever they stand.
RECURSIVE Ranges(_, _, _)
Ranges(content, i, result) ==
    IF i > Len(content) THEN result
    ELSE IF IsHex(content, i) /\ IsHex(content, i + 1) /\ IsHex(content, i + 2)
    THEN Ranges(content, i + 3,
                RangeFrom(content[i].value, content[i + 1].value,
                          content[i + 2].value, result))
    ELSE Ranges(content, i + 1, result)

\* "for i, code in enumerate(range(start_code, end_code + 1))" of pattern
\* 2; dst_codes are the strings of the array.
ArrayFrom(start_code, end_code, dst_array, result) ==
    LET dst_codes == SelectSeq(dst_array, LAMBDA t : t.type = "hex")
    IN [code \in {c \in start_code..end_code :
                    /\ c - start_code < Len(dst_codes)
                    /\ dst_codes[c - start_code + 1].value < 65536}
          |-> <<dst_codes[code - start_code + 1].value>>] @@ result

\* Pattern 2, re.findall(r'<start>\s*<end>\s*\[([^\]]+)\]', content): two
\* adjacent strings and what stands between the bracket after them and
\* the next closing bracket.
RECURSIVE ArrayRanges(_, _, _)
ArrayRanges(content, i, result) ==
    IF i > Len(content) THEN result
    ELSE IF /\ IsHex(content, i) /\ IsHex(content, i + 1)
            /\ i + 2 <= Len(content) /\ content[i + 2].type = "["
            /\ \E j \in (i + 3)..Len(content) : content[j].type = "]"
    THEN LET close == CHOOSE j \in (i + 3)..Len(content) :
                        /\ content[j].type = "]"
                        /\ \A k \in (i + 3)..(j - 1) : content[k].type # "]"
         IN ArrayRanges(content, close + 1,
                        ArrayFrom(content[i].value, content[i + 1].value,
                                  SubSeq(content, i + 3, close - 1), result))
    ELSE ArrayRanges(content, i + 1, result)

\* The loop over the blocks of one kind.
RECURSIVE OverBlocks(_, _, _)
OverBlocks(blocks, kind, result) ==
    IF blocks = <<>> THEN result
    ELSE OverBlocks(Tail(blocks), kind,
                    IF kind = "bfchar" THEN BfcharPairs(Head(blocks), 1, result)
                    ELSE ArrayRanges(Head(blocks), 1, Ranges(Head(blocks), 1, result)))

\* parse_tounicode_cmap: a map from codes to texts, a text its code points.
ParseTounicodeCmap(cmap_data) ==
    OverBlocks(BlockContents(cmap_data, "beginbfrange", "endbfrange", 1), "bfrange",
               OverBlocks(BlockContents(cmap_data, "beginbfchar", "endbfchar", 1),
                          "bfchar", <<>>))

MaxEntries == 2

\* The entries of bfchar and bfrange blocks: ranges with one destination
\* and with a destination array of one, two and three strings, a range
\* longer than its array, a destination that is no UTF-16BE.
BfcharEntries ==
    {<<Hex(1, 2), Hex(65, 4)>>, <<Hex(4, 2), Hex(4276803, 6)>>,
     <<Hex(5, 4), Hex(55296, 4)>>, <<Hex(6, 2), Hex(65, 3)>>}
BfrangeEntries ==
    {<<Hex(1, 4), Hex(2, 4), Hex(97, 4)>>,
     <<Hex(3, 4), Hex(3, 4), Hex(100, 4)>>,
     <<Hex(1, 4), Hex(1, 4), Keyword("["), Hex(75, 4), Keyword("]")>>,
     <<Hex(2, 4), Hex(3, 4), Keyword("["), Hex(76, 4), Hex(77, 4), Keyword("]")>>,
     <<Hex(1, 4), Hex(3, 4), Keyword("["), Hex(65, 4), Hex(66, 4), Hex(67, 4), Keyword("]")>>,
     <<Hex(7, 4), Hex(9, 4), Keyword("["), Hex(80, 4), Keyword("]")>>}

RECURSIVE Flat(_)
Flat(seqs) == IF seqs = <<>> THEN <<>> ELSE Head(seqs) \o Flat(Tail(seqs))

\* A ToUnicode stream: at most one bfchar block, then a bfrange block.
CmapInputs ==
    {(IF chars = <<>> THEN <<>>
      ELSE <<Keyword("beginbfchar")>> \o Flat(chars) \o <<Keyword("endbfchar")>>)
     \o <<Keyword("beginbfrange")>> \o Flat(ranges) \o <<Keyword("endbfrange")>> :
        chars \in SeqsUpTo(BfcharEntries, 1),
        ranges \in SeqsUpTo(BfrangeEntries, MaxEntries)}

InitCmap ==
    /\ inputClass = "cmap"
    /\ stream \in {StreamObj(d, NoFilter, NoParms) : d \in CmapInputs}
    /\ document = Unused
    /\ call = "none"
    /\ returned = Unused
    /\ StepsUnused
    /\ ParseUnused

\* "font_info.to_unicode = parse_tounicode_cmap(cmap_data)"
CmapParse ==
    /\ call = "none"
    /\ call' = "parse_tounicode_cmap"
    /\ returned' = Ok(ParseTounicodeCmap(stream.data))
    /\ UNCHANGED <<stream, document, stepVars, parseVars>>

NextCmap == CmapParse

SpecCmap == InitCmap /\ [][NextCmap]_vars


\* ------------------------------------------- positions of the text items
MaxItems == 3

\* What parser.parse(content_stream) returned: runs of the text 'Hi' at
\* heights that are a line apart, on one line, and beyond 1500.
RawItems ==
    SeqsUpTo({TextItem(<<72, 105>>, x, y, "F1", 12, 0, 0) :
                x \in {100, 200}, y \in {100, 696, 700, 1684}}, MaxItems)

\* The page, 792 units tall, and the items of its content stream.
InitPositions ==
    /\ inputClass = "positions"
    /\ stream = Unused
    /\ document = [MediaBox |-> <<0, 0, 612, 792>>]
    /\ call = "none"
    /\ returned = Unused
    /\ lzw = Unused
    /\ interp \in {[text_items |-> raw_items] : raw_items \in RawItems}
    /\ ParseUnused

\* extract_text_with_positions after "raw_items = parser.parse(...)"
PositionsReturn ==
    /\ call = "none"
    /\ call' = "extract_text_with_positions"
    /\ returned' = [Returned EXCEPT !.items = Normalize(interp.text_items)]
    /\ UNCHANGED <<stream, document, stepVars, parseVars>>

NextPositions == PositionsReturn

SpecPositions == InitPositions /\ [][NextPositions]_vars

\* ------------------------------------------------- _parse_all_objects
\* document.xref after the sections were merged: object 1 lies in the
\* file, each other object lies in the file or is compressed in object
\* stream 1 at some index.
MemberXrefs ==
    {[n \in Members |->
        IF r[n] = MaxMembers THEN XRefEntry(Addr(1, n), 0, TRUE, FALSE)
        ELSE XRefEntry(1, r[n], TRUE, TRUE)] :
        r \in {q \in [Members -> 0..MaxMembers] : q[1] = MaxMembers}}

\* The keys of document.xref in an order of insertion.
MemberOrders ==
    {q \in [Members -> Members] : \A i, j \in Members : q[i] = q[j] => i = j}

\* parse() after _parse_trailer_and_xref, before _parse_all_objects.
InitObjects ==
    /\ inputClass = "members"
    /\ header = TRUE
    /\ tail = "ok"
    /\ startxref = 1
    /\ sections = [o \in Offsets |-> UnreadSection]
    /\ objBytes = [n \in Members |-> UnreadObj]
    /\ pc = "objects"
    /\ err = ""
    /\ version = "1.4"
    /\ xref \in MemberXrefs
    /\ xrefOrder \in MemberOrders
    /\ trailer = EmptyTrailer
    /\ objects = [n \in Members |-> Absent]
    /\ cache = [n \in Members |-> NotCached]
    /\ pending = 0
    /\ depth = 0
    /\ visits = [o \in Offsets |-> 0]
    /\ decoded = [n \in Members |-> 0]
    /\ stream = Unused
    /\ document = Unused
    /\ call = "none"
    /\ returned = Unused
    /\ StepsUnused

NextObjects ==
    \/ ParseUncompressed
    \/ ParseCompressed

SpecObjects == InitObjects /\ [][NextObjects]_vars

\* ------------------------------------------------- one parse after another
\* PDFParser(data).parse() called again and again on two buffers, A and
\* B: `call` names the buffer being parsed, `stream` holds the other
\* buffer, `returned` the outcomes of the parses that have ended.
MaxParses == 3

\* The bytes of the buffer being parsed, as far as parses have read them.
Buffer ==
    [header |-> header, tail |-> tail, startxref |-> startxref,
     sections |-> sections, objBytes |-> objBytes]

\* What parse() gave for the buffer: the document it returned or the
\* exception it raised.
Outcome ==
    [data |-> call, err |-> err, version |-> version, xref |-> xref,
     trailer |-> trailer, objects |-> objects]

InitReparse ==
    /\ inputClass = "reparse"
    /\ header = TRUE
    /\ tail = "ok"
    /\ startxref = 1
    /\ sections = [o \in Offsets |-> UnreadSection]
    /\ objBytes = [n \in ObjNums |-> UnreadObj]
    /\ pc = "header"
    /\ err = ""
    /\ version = ""
    /\ xref = [n \in ObjNums |-> NoEntry]
    /\ xrefOrder = <<>>
    /\ trailer = EmptyTrailer
    /\ objects = [n \in ObjNums |-> Absent]
    /\ cache = [n \in ObjNums |-> NotCached]
    /\ pending = 0
    /\ depth = 0
    /\ visits = [o \in Offsets |-> 0]
    /\ decoded = [n \in ObjNums |-> 0]
    /\ stream \in {[header |-> TRUE, tail |-> "ok", startxref |-> s,
                    sections |-> [o \in Offsets |-> UnreadSection],
                    objBytes |-> [n \in ObjNums |-> UnreadObj]] :
                      s \in Offsets}
    /\ document = Unused
    /\ call = "A"
    /\ returned = <<>>
    /\ StepsUnused

\* PDFParser.__init__ after a parse has ended, for the same buffer or for
\* the other one: a new lexer at position 0 and a new, empty PDFDocument.
NewParser ==
    /\ pc \in {"done", "failed"}
    /\ Len(returned) + 1 < MaxParses
    /\ returned' = Append(returned, Outcome)
    /\ \E other \in BOOLEAN :
        IF other
        THEN /\ stream' = Buffer
             /\ header' = stream.header
             /\ tail' = stream.tail
             /\ startxref' = stream.startxref
             /\ sections' = stream.sections
             /\ objBytes' = stream.objBytes
             /\ call' = IF call = "A" THEN "B" ELSE "A"
        ELSE UNCHANGED <<stream, header, tail, startxref, sections, objBytes,
                         call>>
    /\ pc' = "header"
    /\ err' = ""
    /\ version' = ""
    /\ xref' = [n \in ObjNums |-> NoEntry]
    /\ xrefOrder' = <<>>
    /\ trailer' = EmptyTrailer
    /\ objects' = [n \in ObjNums |-> Absent]
    /\ pending' = 0
    /\ depth' = 0
    /\ visits' = [o \in Offsets |-> 0]
    /\ decoded' = [n \in ObjNums |-> 0]
    /\ UNCHANGED <<inputClass, cache, document, stepVars>>

NextReparse ==
    \/ ParseHeader
    \/ ParseTrailer
    \/ ParseXrefAt
    \/ ParseUncompressed
    \/ ParseCompressed
    \/ NewParser

SpecReparse == InitReparse /\ [][NextReparse]_vars

\* ============================================================== PDFLexer
\* A buffer is a sequence of bytes, the cursor pos counts the bytes before
\* it (0 .. Len(data)).  A PDFToken: a number token carries num / den and
\* real = TRUE if it was read by float(), a string, name or keyword token
\* its bytes, a bool token num = 1 or 0.
PDFToken(type, num, den, real, bytes, pos) ==
    [type |-> type, num |-> num, den |-> den, real |-> real, bytes |-> bytes,
     pos |-> pos]

\* read_token returned None.
NoToken == PDFToken("none", 0, 1, FALSE, <<>>, 0)

\* What a call on the lexer leaves: the token and the cursor, or the
\* exception it raised and the cursor at that moment.
Lexed(token, pos) == [raised |-> FALSE, err |-> "", token |-> token, pos |-> pos]
LexError(e, pos) == [raised |-> TRUE, err |-> e, token |-> NoToken, pos |-> pos]

\* b' \t\n\r\x00\x0c'
WHITESPACE == {32, 9, 10, 13, 0, 12}

\* b'()<>[]{}/%'
DELIMITERS == {40, 41, 60, 62, 91, 93, 123, 125, 47, 37}

\* PDFLexer.peek
Peek(data, pos, count) == Slice(data, pos, pos + count)

\* The inner loop of skip_whitespace: to the end of the line of a comment.
RECURSIVE SkipComment(_, _)
SkipComment(data, pos) ==
    IF pos < Len(data) /\ data[pos + 1] \notin {13, 10}
    THEN SkipComment(data, pos + 1)
    ELSE pos

\* PDFLexer.skip_whitespace: the cursor it leaves.
RECURSIVE SkipWhitespace(_, _)
SkipWhitespace(data, pos) ==
    IF pos >= Len(data) THEN pos
    ELSE IF data[pos + 1] \in WHITESPACE THEN SkipWhitespace(data, pos + 1)
    ELSE IF data[pos + 1] = 37 THEN SkipWhitespace(data, SkipComment(data, pos))
    ELSE pos

\* bytes([int(hex_val, 16)]) for the two bytes after '#': the byte, or -1
\* for a ValueError.  int() strips white space around the digits and takes
\* a sign.
HexEscape(a, b) ==
    LET space == {32, 9, 10, 11, 12, 13}
    IN IF HexVal(a) >= 0 /\ HexVal(b) >= 0 THEN 16 * HexVal(a) + HexVal(b)
       ELSE IF a \in space /\ HexVal(b) >= 0 THEN HexVal(b)
       ELSE IF HexVal(a) >= 0 /\ b \in space THEN HexVal(a)
       ELSE IF a = 43 /\ HexVal(b) >= 0 THEN HexVal(b)
       ELSE IF a = 45 /\ HexVal(b) = 0 THEN 0
       ELSE -1

\* The loop of _read_name.
RECURSIVE ReadNameFrom(_, _, _)
ReadNameFrom(data, pos, name) ==
    IF pos >= Len(data) THEN [pos |-> pos, name |-> name]
    ELSE LET ch == data[pos + 1]
         IN IF ch \in WHITESPACE \cup DELIMITERS THEN [pos |-> pos, name |-> name]
            ELSE IF ch = 35 /\ pos + 2 < Len(data)
                    /\ HexEscape(data[pos + 2], data[pos + 3]) >= 0
            THEN ReadNameFrom(data, pos + 3,
                              Append(name, HexEscape(data[pos + 2], data[pos + 3])))
            ELSE ReadNameFrom(data, pos + 1, Append(name, ch))

\* name.decode('utf-8', errors='replace') for names whose bytes above 127
\* are no part of a well-formed sequence: each becomes U+FFFD.
Utf8Replace(name) ==
    [i \in DOMAIN name |-> IF name[i] < 128 THEN name[i] ELSE 65533]

\* PDFLexer._read_name
ReadName(data, start_pos) ==
    LET r == ReadNameFrom(data, start_pos + 1, <<>>)
    IN Lexed(PDFToken("name", 0, 1, FALSE, Utf8Replace(r.name), start_pos), r.pos)

\* escape_map of _read_string
EscapeMap ==
    (110 :> 10) @@ (114 :> 13) @@ (116 :> 9) @@ (98 :> 8) @@ (102 :> 12)
    @@ (40 :> 40) @@ (41 :> 41) @@ (92 :> 92)

\* The loop "for _ in range(3)" of an octal escape: the digits it takes.
RECURSIVE OctalDigits(_, _, _)
OctalDigits(data, pos, n) ==
    IF n > 0 /\ pos < Len(data) /\ data[pos + 1] \in 48..55
    THEN <<data[pos + 1]>> \o OctalDigits(data, pos + 1, n - 1)
    ELSE <<>>

\* int(octal, 8)
RECURSIVE OctalValue(_)
OctalValue(octal) ==
    IF octal = <<>> THEN 0
    ELSE 8 * OctalValue(SubSeq(octal, 1, Len(octal) - 1)) + (octal[Len(octal)] - 48)

\* The loop of _read_string.
RECURSIVE ReadStringFrom(_, _, _, _)
ReadStringFrom(data, pos, result, nesting) ==
    IF pos >= Len(data) \/ nesting <= 0 THEN [pos |-> pos, result |-> result]
    ELSE LET ch == data[pos + 1]
         IN IF ch = 92
            THEN IF pos + 1 >= Len(data) THEN [pos |-> pos + 1, result |-> result]
                 ELSE LET esc == data[pos + 2]
                      IN IF esc \in DOMAIN EscapeMap
                         THEN ReadStringFrom(data, pos + 2,
                                             Append(result, EscapeMap[esc]), nesting)
                         ELSE IF esc \in 48..57
                         THEN LET octal == OctalDigits(data, pos + 1, 3)
                              IN ReadStringFrom(
                                   data, pos + 1 + Len(octal),
                                   IF octal # <<>>
                                   THEN Append(result, OctalValue(octal) % 256)
                                   ELSE result,
                                   nesting)
                         ELSE IF esc \in {13, 10}
                         THEN ReadStringFrom(
                                data,
                                IF esc = 13 /\ Peek(data, pos + 1, 1) = <<10>>
                                THEN pos + 3 ELSE pos + 2,
                                result, nesting)
                         ELSE ReadStringFrom(data, pos + 2, Append(result, esc), nesting)
            ELSE IF ch = 40
            THEN ReadStringFrom(data, pos + 1, Append(result, ch), nesting + 1)
            ELSE IF ch = 41
            THEN ReadStringFrom(data, pos + 1,
                                IF nesting - 1 > 0 THEN Append(result, ch) ELSE result,
                                nesting - 1)
            ELSE ReadStringFrom(data, pos + 1, Append(result, ch), nesting)

\* PDFLexer._read_string
ReadString(data, start_pos) ==
    LET r == ReadStringFrom(data, start_pos + 1, <<>>, 1)
    IN Lexed(PDFToken("string", 0, 1, FALSE, r.result, start_pos), r.pos)

\* The loop of _read_hex_string.
RECURSIVE ReadHexFrom(_, _, _)
ReadHexFrom(data, pos, hex_str) ==
    IF pos >= Len(data) THEN [raised |-> FALSE, pos |-> pos, hex_str |-> hex_str]
    ELSE LET ch == data[pos + 1]
         IN IF ch = 62 THEN [raised |-> FALSE, pos |-> pos + 1, hex_str |-> hex_str]
            ELSE IF ch \in WHITESPACE THEN ReadHexFrom(data, pos + 1, hex_str)
            ELSE IF HexVal(ch) >= 0 THEN ReadHexFrom(data, pos + 1, Append(hex_str, ch))
            ELSE [raised |-> TRUE, pos |-> pos, hex_str |-> hex_str]

\* PDFLexer._read_hex_string
ReadHexString(data, start_pos) ==
    LET r == ReadHexFrom(data, start_pos + 1, <<>>)
    IN IF r.raised THEN LexError("ValueError", r.pos)
       ELSE Lexed(PDFToken("hex_string", 0, 1, FALSE,
                           FromHex(IF Len(r.hex_str) % 2 = 1
                                   THEN Append(r.hex_str, 48) ELSE r.hex_str),
                           start_pos),
                  r.pos)

\* The loop of _read_number_or_keyword and of _read_keyword: the cursor at
\* the first white space or delimiter.
RECURSIVE RegularEnd(_, _)
RegularEnd(data, pos) ==
    IF pos < Len(data) /\ data[pos + 1] \notin WHITESPACE \cup DELIMITERS
    THEN RegularEnd(data, pos + 1)
    ELSE pos

\* A text without its sign.
Unsigned(s) == IF s # <<>> /\ s[1] \in {43, 45} THEN Tail(s) ELSE s
AllDigits(s) == \A i \in DOMAIN s : s[i] \in 48..57

\* int(s) of a run of digits
RECURSIVE DigitsValue(_)
DigitsValue(s) ==
    IF s = <<>> THEN 0
    ELSE 10 * DigitsValue(SubSeq(s, 1, Len(s) - 1)) + (s[Len(s)] - 48)

RECURSIVE Pow10(_)
Pow10(n) == IF n = 0 THEN 1 ELSE 10 * Pow10(n - 1)

\* int(token_str) and float(token_str) of a text made of signs, digits,
\* points and letters other than e, E and _: the value as num / den, or
\* ok = FALSE for a ValueError.
ParseNumber(token_str) ==
    LET body == Unsigned(token_str)
        sign == IF token_str # <<>> /\ token_str[1] = 45 THEN -1 ELSE 1
        points == {i \in DOMAIN body : body[i] = 46}
    IN IF \E i \in DOMAIN token_str : token_str[i] = 46
       THEN IF Cardinality(points) = 1
            THEN LET p == CHOOSE i \in points : TRUE
                     whole == SubSeq(body, 1, p - 1)
                     frac == SubSeq(body, p + 1, Len(body))
                 IN IF AllDigits(whole) /\ AllDigits(frac) /\ Len(body) > 1
                    THEN [ok |-> TRUE, real |-> TRUE,
                          num |-> sign * (DigitsValue(whole) * Pow10(Len(frac))
                                          + DigitsValue(frac)),
                          den |-> Pow10(Len(frac))]
                    ELSE [ok |-> FALSE, real |-> TRUE, num |-> 0, den |-> 1]
            ELSE [ok |-> FALSE, real |-> TRUE, num |-> 0, den |-> 1]
       ELSE IF body # <<>> /\ AllDigits(body)
            THEN [ok |-> TRUE, real |-> FALSE, num |-> sign * DigitsValue(body),
                  den |-> 1]
            ELSE [ok |-> FALSE, real |-> FALSE, num |-> 0, den |-> 1]

\* token.decode('ascii') raises for a byte above 127.
IsAscii(token) == \A i \in DOMAIN token : token[i] < 128

\* PDFLexer._read_number_or_keyword
ReadNumberOrKeyword(data, start_pos) ==
    LET end == RegularEnd(data, start_pos)
        token == SubSeq(data, start_pos + 1, end)
        n == ParseNumber(token)
    IN IF ~IsAscii(token) THEN LexError("UnicodeDecodeError", end)
       ELSE IF n.ok
       THEN Lexed(PDFToken("number", n.num, n.den, n.real, <<>>, start_pos), end)
       ELSE Lexed(PDFToken("keyword", 0, 1, FALSE, token, start_pos), end)

\* _read_keyword with the cursor left where the call found it.
PeekKeyword(data, start_pos) ==
    Lexed(PDFToken("keyword", 0, 1, FALSE,
                   SubSeq(data, start_pos + 1, RegularEnd(data, start_pos)),
                   start_pos),
          start_pos)

\* PDFLexer._read_keyword; true = <<116, 114, 117, 101>>, false and null
\* likewise.
ReadKeyword(data, start_pos) ==
    LET end == RegularEnd(data, start_pos)
        token == SubSeq(data, start_pos + 1, end)
    IN IF ~IsAscii(token) THEN LexError("UnicodeDecodeError", end)
       ELSE IF token = <<116, 114, 117, 101>>
       THEN Lexed(PDFToken("bool", 1, 1, FALSE, <<>>, start_pos), end)
       ELSE IF token = <<102, 97, 108, 115, 101>>
       THEN Lexed(PDFToken("bool", 0, 1, FALSE, <<>>, start_pos), end)
       ELSE IF token = <<110, 117, 108, 108>>
       THEN Lexed(PDFToken("null", 0, 1, FALSE, <<>>, start_pos), end)
       ELSE Lexed(PDFToken("keyword", 0, 1, FALSE, token, start_pos), end)

\* bytes.isalpha of one byte
IsAlpha(ch) == ch \in 65..90 \/ ch \in 97..122

\* PDFLexer.read_token with the cursor at pos
ReadToken(data, pos) ==
    LET start_pos == SkipWhitespace(data, pos)
    IN IF start_pos >= Len(data) THEN Lexed(NoToken, start_pos)
       ELSE LET ch == data[start_pos + 1]
            IN IF ch = 60
               THEN IF Peek(data, start_pos, 2) = <<60, 60>>
                    THEN Lexed(PDFToken("dict_start", 0, 1, FALSE, <<60, 60>>, start_pos),
                               start_pos + 2)
                    ELSE ReadHexString(data, start_pos)
               ELSE IF ch = 62
               THEN IF Peek(data, start_pos, 2) = <<62, 62>>
                    THEN Lexed(PDFToken("dict_end", 0, 1, FALSE, <<62, 62>>, start_pos),
                               start_pos + 2)
                    ELSE LexError("ValueError", start_pos)
               ELSE IF ch = 91
               THEN Lexed(PDFToken("array_start", 0, 1, FALSE, <<91>>, start_pos),
                          start_pos + 1)
               ELSE IF ch = 93
               THEN Lexed(PDFToken("array_end", 0, 1, FALSE, <<93>>, start_pos),
                          start_pos + 1)
               ELSE IF ch = 47 THEN ReadName(data, start_pos)
               ELSE IF ch = 40 THEN ReadString(data, start_pos)
               ELSE IF ch \in {45, 43, 46} \cup (48..57)
               THEN ReadNumberOrKeyword(data, start_pos)
               ELSE IF IsAlpha(ch) THEN ReadKeyword(data, start_pos)
               ELSE LexError("ValueError", start_pos)

\* ------------------------------------------------------- PDFParser values
\* A value _parse_value returns: an int or a float (num / den), bytes
\* ("string"), a str ("str": the value of a name or of a keyword), a bool,
\* None, a PDFRef (num = obj_num, den = gen_num), a list (items) or a dict
\* (items: the keys with their values, in the order of insertion).
PyValue(kind, num, den, bytes, items) ==
    [kind |-> kind, num |-> num, den |-> den, bytes |-> bytes, items |-> items]
PyNone == PyValue("None", 0, 1, <<>>, <<>>)
PDFRef(obj_num, gen_num) == PyValue("PDFRef", obj_num, gen_num, <<>>, <<>>)

\* token.value
TokenValue(token) ==
    CASE token.type = "number" ->
            PyValue(IF token.real THEN "float" ELSE "int", token.num, token.den,
                    <<>>, <<>>)
      [] token.type \in {"string", "hex_string"} ->
            PyValue("bytes", 0, 1, token.bytes, <<>>)
      [] token.type \in {"name", "keyword"} -> PyValue("str", 0, 1, token.bytes, <<>>)
      [] token.type = "bool" -> PyValue("bool", token.num, 1, <<>>, <<>>)
      [] OTHER -> PyNone

\* int(token.value) of a number token: a float is cut off towards zero.
IntOf(token) ==
    IF token.num >= 0 THEN token.num \div token.den
    ELSE -((-token.num) \div token.den)

\* What a call on the parser leaves: the value and the cursor of the
\* lexer, or the exception.
Parsed(value, pos) == [raised |-> FALSE, err |-> "", value |-> value, pos |-> pos]
ParseError(e, pos) == [raised |-> TRUE, err |-> e, value |-> PyNone, pos |-> pos]

\* result[key] = value
SetItem(result, key, value) ==
    IF \E i \in DOMAIN result : result[i].key = key
    THEN [i \in DOMAIN result |->
            IF result[i].key = key THEN [key |-> key, value |-> value]
            ELSE result[i]]
    ELSE Append(result, [key |-> key, value |-> value])

RECURSIVE ParseValue(_, _)
RECURSIVE ParseArray(_, _, _)
RECURSIVE ParseDict(_, _, _)

\* PDFParser._parse_value with the cursor of the lexer at pos
ParseValue(data, pos) ==
    Once(ReadToken(data, pos), LAMBDA t :
      IF t.raised THEN ParseError(t.err, t.pos)
      ELSE IF t.token = NoToken THEN Parsed(PyNone, t.pos)
      ELSE IF t.token.type = "dict_start" THEN ParseDict(data, t.pos, <<>>)
      ELSE IF t.token.type = "array_start" THEN ParseArray(data, t.pos, <<>>)
      ELSE IF t.token.type = "number"
      THEN Once(ReadToken(data, t.pos), LAMBDA t2 :
             IF t2.raised THEN ParseError(t2.err, t2.pos)
             ELSE IF t2.token # NoToken /\ t2.token.type = "number"
             THEN Once(ReadToken(data, t2.pos), LAMBDA t3 :
                    IF t3.raised THEN ParseError(t3.err, t3.pos)
                    ELSE IF t3.token # NoToken /\ t3.token.type = "keyword"
                            /\ t3.token.bytes = <<82>>
                    THEN Parsed(PDFRef(IntOf(t.token), IntOf(t2.token)), t3.pos)
                    ELSE Parsed(TokenValue(t.token), t.pos))
             ELSE Parsed(TokenValue(t.token), t.pos))
      ELSE IF t.token.type \in {"string", "hex_string", "name", "bool", "null",
                                "keyword"}
      THEN Parsed(TokenValue(t.token), t.pos)
      ELSE ParseError("ValueError", t.pos))

\* The loop of PDFParser._parse_array
ParseArray(data, pos, result) ==
    Once(ReadToken(data, pos), LAMBDA t :
      IF t.raised THEN ParseError(t.err, t.pos)
      ELSE IF t.token = NoToken THEN ParseError("ValueError", t.pos)
      ELSE IF t.token.type = "array_end"
      THEN Parsed(PyValue("list", 0, 1, <<>>, result), t.pos)
      ELSE Once(ParseValue(data, pos), LAMBDA v :
             IF v.raised THEN v
             ELSE ParseArray(data, v.pos, Append(result, v.value))))

\* The loop of PDFParser._parse_dict
ParseDict(data, pos, result) ==
    Once(ReadToken(data, pos), LAMBDA t :
      IF t.raised THEN ParseError(t.err, t.pos)
      ELSE IF t.token = NoToken THEN ParseError("ValueError", t.pos)
      ELSE IF t.token.type = "dict_end"
      THEN Parsed(PyValue("dict", 0, 1, <<>>, result), t.pos)
      ELSE IF t.token.type # "name" THEN ParseError("ValueError", t.pos)
      ELSE Once(ParseValue(data, t.pos), LAMBDA v :
             IF v.raised THEN v
             ELSE ParseDict(data, v.pos, SetItem(result, t.token.bytes, v.value))))

\* ---------------------------------------- calls on a lexer and a parser
\* `stream` is the buffer (self.data), `interp` the lexer: pos is its
\* cursor, start the cursor before the last call, calls the number of
\* calls made; `call` names the last call and `returned` holds what it
\* returned or raised.
MaxTokens == 4
MaxPieces == 3
MaxBytes == 4

\* "values": up to MaxTokens of the texts 1, 0, 2, 1.5, R and > with one
\* space between two of them, as they are or within [ and ].
ValueTexts == {<<49>>, <<48>>, <<50>>, <<49, 46, 53>>, <<82>>, <<62>>}
ValueBuffers ==
    UNION {{Join(ts, <<32>>), <<91>> \o Join(ts, <<32>>) \o <<93>>} :
             ts \in SeqsUpTo(ValueTexts, MaxTokens)}

\* The parts of the body of a literal string: a byte, a balanced pair of
\* parentheses around a byte, and a backslash before LF, CR and CR LF.
Pieces == {<<97>>, <<40, 98, 41>>, <<92, 10>>, <<92, 13>>, <<92, 13, 10>>}
IsContinuation(piece) == piece[1] = 92

\* What may follow the closing parenthesis.
Suffixes == {<<>>, <<41>>, <<97>>}

\* "strings": '(' body ')' suffix.
StringLiteral(pieces, suffix) == <<40>> \o Flat(pieces) \o <<41>> \o suffix
StringBuffers ==
    {StringLiteral(ps, s) : ps \in SeqsUpTo(Pieces, MaxPieces), s \in Suffixes}

\* "bytes": every buffer of up to MaxBytes of these bytes: space, LF, the
\* delimiters % < > ( ) [ /, the backslash, #, a letter, a digit and a
\* byte above 127.
ByteBuffers ==
    SeqsUpTo({32, 10, 37, 60, 62, 40, 41, 91, 47, 92, 35, 97, 49, 200}, MaxBytes)

\* PDFLexer(data): the cursor at 0; for the buffers of bytes also after
\* "self.lexer.pos = offset" with any offset inside the buffer.
InitLexer ==
    /\ inputClass \in {"values", "strings", "bytes"}
    /\ stream \in CASE inputClass = "values" -> ValueBuffers
                    [] inputClass = "strings" -> StringBuffers
                    [] inputClass = "bytes" -> ByteBuffers
    /\ interp \in {[pos |-> p, start |-> p, calls |-> 0] :
                      p \in (IF inputClass = "bytes" THEN 0..Len(stream) ELSE {0})}
    /\ call = "none"
    /\ returned = Unused
    /\ document = Unused
    /\ lzw = Unused
    /\ ParseUnused

\* The last call neither raised nor met the end of the buffer.
MayCall ==
    \/ call = "none"
    \/ call = "read_token" /\ ~returned.raised /\ returned.token # NoToken
    \/ call = "_parse_value" /\ ~returned.raised /\ interp.pos < Len(stream)

\* "token = self.lexer.read_token()"
ReadTokenCall ==
    /\ inputClass \in {"strings", "bytes"}
    /\ MayCall
    /\ interp.calls <= Len(stream)
    /\ returned' = ReadToken(stream, interp.pos)
    /\ interp' = [pos |-> returned'.pos, start |-> interp.pos,
                  calls |-> interp.calls + 1]
    /\ call' = "read_token"
    /\ UNCHANGED <<stream, document, lzw, parseVars>>

\* "value = self._parse_value()"
ParseValueCall ==
    /\ inputClass = "values"
    /\ MayCall
    /\ interp.calls <= Len(stream)
    /\ returned' = ParseValue(stream, interp.pos)
    /\ interp' = [pos |-> returned'.pos, start |-> interp.pos,
                  calls |-> interp.calls + 1]
    /\ call' = "_parse_value"
    /\ UNCHANGED <<stream, document, lzw, parseVars>>

NextLexer ==
    \/ ReadTokenCall
    \/ ParseValueCall

SpecLexer == InitLexer /\ [][NextLexer]_vars

\* =================================================================== C1
\* The offsets of the sections read so far, from startxref along Prev.
RECURSIVE Chain(_, _)
Chain(o, fuel) ==
    IF o = 0 \/ fuel = 0 THEN <<>>
    ELSE IF sections[o].kind \in {"unread", "garbage"} THEN <<>>
    ELSE <<o>> \o Chain(sections[o].Prev, fuel - 1)

Walked == Chain(startxref, MaxSections)

\* Positions of the walked chain whose section has a record for n.
Holders(n) == {i \in 1..Len(Walked) : sections[Walked[i]].recs[n] # NoRec}
NewestHolder(n) == CHOOSE i \in Holders(n) : \A j \in Holders(n) : i <= j

NewestEntry(n) ==
    IF pc \in {"header", "trailer"} \/ Holders(n) = {} THEN NoEntry
    ELSE LET o == Walked[NewestHolder(n)]
         IN SectionEntry(o, sections[o], n)

\* C1: at every point of the walk, and so after the whole Prev chain has
\* been walked, the merged xref table holds for every object number the
\* entry of the newest section read so far that has a record for it (also
\* when that entry is free); an older section never overwrites it.
C1_NewestSectionWins ==
    \A n \in ObjNums : xref[n] = NewestEntry(n)

\* The chain is walked, object n has records in two sections, the newest of
\* them free and the older one in use, in a table and in a stream.
C1_Witness ==
    /\ pc = "done"
    /\ \E n \in ObjNums : \E i, j \in Holders(n) :
        /\ i < j
        /\ i = NewestHolder(n)
        /\ sections[Walked[i]].recs[n] = 0
        /\ sections[Walked[j]].recs[n] # 0
        /\ sections[Walked[i]].kind # sections[Walked[j]].kind
        /\ ~xref[n].in_use

\* =================================================================== C3
\* The bytes at the offset of the in-use entry of object n are a well-formed
\* object n of the entry's generation.
WellFormed(n) ==
    /\ objBytes[n].num = n
    /\ objBytes[n].gen = xref[n].gen_num
    /\ objBytes[n].body \in {"value", "objstm"}

\* C3: after the object-resolution pass an in-use, uncompressed object is in
\* the object table exactly if its own bytes are well-formed, whatever the
\* other objects look like, and parse() does not fail once the pass began.
C3_CorruptObjectIsLocal ==
    /\ pc \in {"compressed", "done"} =>
        \A n \in Uncompressed(xref) :
            IF WellFormed(n)
            THEN objects[n] = Value(objBytes[n].body, xref[n].offset, 0,
                                    objBytes[n].pairs)
            ELSE objects[n] = Absent
    /\ pc = "failed" => \A n \in ObjNums : objBytes[n] = UnreadObj

\* parse() returned a document that holds a well-formed object although the
\* object before it in the loop failed to parse.
C3_Witness ==
    /\ pc = "done"
    /\ \E m, n \in Uncompressed(xref) :
        /\ m < n
        /\ ~WellFormed(m)
        /\ objects[m] = Absent
        /\ WellFormed(n)
        /\ objects[n] # Absent

\* =================================================================== C4
\* C4: the walk of the Prev chain parses each section offset at most once
\* and ends without exhausting the stack, also for cyclic Prev offsets.
C4_EachSectionParsedOnce ==
    /\ \A o \in Offsets : visits[o] <= 1
    /\ err # "RecursionError"

\* =================================================================== C6
EncryptSeen == \E o \in Offsets : visits[o] > 0 /\ sections[o].Encrypt

\* C6: once a section whose trailer holds Encrypt has been read, no object
\* is parsed, no document is returned and the parse fails as encrypted.
C6_EncryptedRejected ==
    EncryptSeen =>
        /\ pc \notin {"compressed", "done"}
        /\ \A n \in ObjNums : objects[n] = Absent
        /\ pc = "failed" => err = "EncryptedDocument"

\* =================================================================== C7
\* The buffer lacks the signature, %%EOF, startxref or the offset after it.
ShortBuffer == ~header \/ tail # "ok"

\* The failures the parser raises itself (ValueError).
ClassifiedErrors ==
    {"MalformedHeader", "MissingTrailer", "MissingCrossReference", "ValueError"}

\* C7: for a buffer shorter than a minimal PDF the parse ends in a header
\* or trailer failure, never in a crash and never with a document.
C7_ShortBufferClassified ==
    (ShortBuffer /\ pc \in {"done", "failed"}) =>
        (pc = "failed" /\ err \in ClassifiedErrors)

\* =================================================================== C2
Present(ref) == ref \in DOMAIN document.objects
Dangling(ref) == IsRef(ref) /\ ~Present(ref)

\* The Kids of a Pages node, and what lies below a set of nodes.
KidsOf(k) ==
    IF Present(k) /\ document.objects[k].Type = "Pages"
    THEN {document.objects[k].Kids[i] :
             i \in 1..Len(document.objects[k].Kids)}
    ELSE {}
RECURSIVE Below(_, _)
Below(S, n) ==
    IF n = 0 THEN S
    ELSE Once(S \cup UNION {KidsOf(k) : k \in S},
              LAMBDA T : IF T = S THEN S ELSE Below(T, n - 1))

\* No Pages node lies below itself.
Acyclic ==
    \A k \in DOMAIN document.objects :
        k \notin Below(KidsOf(k), Cardinality(DOMAIN document.objects))

\* C2: when text is extracted from all pages (extract_all_text, and the
\* PDF branch of parse), a failure local to one page (its content stream
\* or ToUnicode stream fails to decode) does not abort the call: the text
\* of every other page is still returned.
C2_PageFailureIsLocal ==
    (call \in {"extract_all_text", "parse"} /\ Acyclic) =>
        /\ returned.err = ""
        /\ \A i \in 0..(GetPageCount(document) - 1) :
            \A t \in {ExtractText(document, i)} :
                (t.err = "" /\ t.text # <<>>) =>
                    \E k \in 1..Len(returned.all_text) :
                        returned.all_text[k] =
                            IF call = "parse" THEN t.text
                            ELSE PageSection(i, t.text)

\* =================================================================== C5
\* C5: get_pages terminates for every object table, including a page tree
\* in which a Kids list refers back to its node or to an ancestor: it
\* returns its list instead of recursing until the interpreter gives up.
C5_GetPagesTerminates ==
    call = "get_pages" => returned.err # "RecursionError"

\* =================================================================== C8
StreamsDecode ==
    \A k \in DOMAIN document.objects :
        DecodeStream(document.objects[k].stream).ok

RootKids == Get(document, Get(document, document.trailer.Root).Pages).Kids

\* C8: a dangling reference is not an error.  When the trailer's Root,
\* the catalog's Pages, a Kids entry, a page's Contents, Resources or Font
\* entry, or a font's ToUnicode names an object the table does not hold,
\* get_page_count, get_pages and extract_text_with_positions never raise:
\* a dangling Root or Pages gives 0 / an empty list, a dangling Kids entry
\* is skipped, a dangling Contents gives no items, and a dangling
\* Resources, Font or ToUnicode leaves the page's items as they are.
C8_DanglingIsAbsent ==
    (/\ call \in {"get_page_count", "get_pages", "extract_text_with_positions"}
     /\ Acyclic
     /\ StreamsDecode) =>
        /\ returned.err = ""
        /\ (\/ Dangling(document.trailer.Root)
            \/ Dangling(Get(document, document.trailer.Root).Pages)) =>
               (returned.count = 0 /\ returned.pages = <<>>
                /\ returned.items = <<>>)
        /\ (/\ call = "get_pages"
            /\ Present(document.trailer.Root)
            /\ \A i \in 1..Len(RootKids) :
                  Dangling(RootKids[i]) \/ Get(document, RootKids[i]).Type = "Page")
           => returned.pages = SelectSeq(RootKids, Present)
        /\ call = "extract_text_with_positions" =>
               \A found \in {GetPages(document).pages} :
                   returned.page_num < Len(found) =>
                       LET page == Get(document, found[returned.page_num + 1])
                       IN returned.items =
                             IF Dangling(page.Contents) THEN <<>>
                             ELSE ContentStreamParse(
                                      DecodeStream(
                                          Get(document, page.Contents).stream).data)

\* The first Kids entry and the page's Resources dangle, and the page's
\* text is still extracted.
C8_Witness ==
    /\ call = "extract_text_with_positions"
    /\ Acyclic
    /\ Present(document.trailer.Root)
    /\ Len(RootKids) > 1
    /\ Dangling(RootKids[1])
    /\ \E found \in {GetPages(document).pages} :
           Len(found) = 1 /\ Dangling(Get(document, found[1]).Resources)
    /\ returned.page_num = 0
    /\ returned.err = ""
    /\ returned.items # <<>>

\* =================================================================== C9
\* C9: decode_stream on a stream dictionary with FlateDecode and decode
\* parameters Predictor=15, Columns, Colors, BitsPerComponent returns the
\* predictor-reversed bytes, the same bytes as StreamDecoder.decode called
\* with those parameters; the same holds for the stream data of an object
\* stream decoded during parsing.
C9_PredictorReversed ==
    (/\ call \in {"decode_stream", "_parse_object_stream"}
     /\ stream.has_data
     /\ AsList(stream.Filter) = <<"FlateDecode">>
     /\ ~stream.DecodeParms.empty
     /\ stream.DecodeParms.Predictor = 15)
    => returned = StreamDecoderDecode(stream.data, stream.Filter,
                                      stream.DecodeParms)

\* ================================================================== C10
\* f_n(... f_1(data)): the last name applied to what the names before it
\* gave, a DCTDecode or JPXDecode stage giving back what it was given.
RECURSIVE Chained(_, _, _)
Chained(data, names, params) ==
    IF names = <<>> THEN Ok(data)
    ELSE LET inner == Chained(data, SubSeq(names, 1, Len(names) - 1), params)
             last == names[Len(names)]
         IN IF ~inner.ok \/ last \in {"DCTDecode", "JPXDecode"} THEN inner
            ELSE ApplyFilter(last, inner.data, params)

\* C10: StreamDecoder.decode applies the named filters strictly left to
\* right, the output of filter i being the input of filter i+1; a single
\* filter name is treated as a one-element chain; DCTDecode and JPXDecode
\* stages return their input bytes unchanged.
C10_FiltersLeftToRight ==
    call = "decode" =>
        returned = Chained(stream.data,
                           IF stream.Filter.kind = "name"
                           THEN <<stream.Filter.name>>
                           ELSE stream.Filter.names,
                           stream.DecodeParms)

\* "4141" under [ASCIIHexDecode, RunLengthDecode]: the hex stage gives
\* "AA", the run-length stage copies one 'A'.
C10_Witness ==
    /\ call = "decode"
    /\ stream.data = <<52, 49, 52, 49>>
    /\ stream.Filter = FilterArray(<<"ASCIIHexDecode", "RunLengthDecode">>)
    /\ returned = Ok(<<65>>)

\* C11: decoding a standard encoding of a byte string x with the matching
\* text filter (ASCII85Decode, ASCIIHexDecode, RunLengthDecode) returns
\* exactly x, whichever of its encodings was taken.
C11_TextFiltersRoundTrip ==
    (inputClass = "encoded" /\ call = "decode")
        => \A x \in Payloads(stream.Filter.name) :
              stream.data \in Encodings(stream.Filter.name, x) => returned = Ok(x)

\* A repeat run of the byte 128 followed by a literal run has been decoded.
C11_Witness ==
    /\ inputClass = "encoded"
    /\ call = "decode"
    /\ stream.Filter = FilterName("RunLengthDecode")
    /\ stream.data = <<255, 128, 0, 0, 128>>
    /\ returned = Ok(<<128, 128, 0>>)

\* ================================================================== C12
\* The names StreamDecoder.decode has a branch for that does not raise.
Implemented ==
    {"FlateDecode", "ASCII85Decode", "ASCIIHexDecode", "LZWDecode",
     "RunLengthDecode", "DCTDecode", "JPXDecode"}

\* C12: a decode call whose chain names CCITTFaxDecode fails with a
\* not-implemented error and one that names an unknown filter fails with
\* an error, also when every filter before that name succeeded; the call
\* returns no bytes, neither its input nor the output of the filters
\* before.
C12_UnsupportedFilterFails ==
    call = "decode" =>
        \A names \in {AsList(stream.Filter)} :
          \A k \in 1..Len(names) :
            (/\ names[k] \notin Implemented
             /\ \A j \in 1..(k - 1) : names[j] \in Implemented
             /\ Chained(stream.data, SubSeq(names, 1, k - 1), stream.DecodeParms).ok)
            => /\ ~returned.ok
               /\ returned.data = <<>>
               /\ returned.err = IF names[k] = "CCITTFaxDecode"
                                 THEN "NotImplementedError" ELSE "ValueError"

\* "41" under [ASCIIHexDecode, CCITTFaxDecode]: the hex stage gives "A",
\* the call ends with NotImplementedError.
C12_Witness ==
    /\ call = "decode"
    /\ stream.data = <<52, 49>>
    /\ stream.Filter = FilterArray(<<"ASCIIHexDecode", "CCITTFaxDecode">>)
    /\ returned = Err("NotImplementedError")

\* ================================================================== C13
\* The code width that goes with a next free code: 9 bits below 512, one
\* more from each power of two on, 12 at most.
WidthFor(next_code) == 9 + Cardinality({w \in 9..11 : next_code >= Pow2(w)})

\* The registers st of decode_lzw are within their ranges.
LzwInRange(st) ==
    /\ st.code_bits \in 9..12
    /\ st.next_code \in 258..4096
    /\ st.code_bits = WidthFor(st.next_code)
    /\ Len(st.table) = st.next_code - 258

\* A pass from registers st to registers nx has taken a code out of the
\* bit buffer: the bits read in less the bits left over are one code.
LzwRead(st, nx) ==
    st.bits_in_buffer + 8 * (nx.pos - st.pos) - nx.bits_in_buffer = st.code_bits

\* What the pass did with the code it read.
LzwHandled(st, nx, code) ==
    /\ code = 256
       => /\ nx.table = <<>> /\ nx.next_code = 258 /\ nx.code_bits = 9
          /\ nx.prev_seq = <<>> /\ nx.at = "while" /\ nx.result = st.result
    /\ code = 257 => nx.at = "break" /\ nx.result = st.result
    /\ (/\ code \notin {256, 257}
        /\ ~LzwInTable(st, code)
        /\ ~(code = st.next_code /\ st.prev_seq # <<>>))
       => nx.at = "raise" /\ nx.result = st.result
    /\ code # 256
       => /\ nx.code_bits \in {st.code_bits, st.code_bits + 1}
          /\ nx.code_bits = st.code_bits + 1
             <=> /\ nx.next_code = st.next_code + 1
                 /\ nx.next_code = Pow2(st.code_bits)
                 /\ st.code_bits < 12

\* C13: throughout decode_lzw the code width is within 9..12 and the next
\* free code within 258..4096; the width grows by one exactly when the
\* next free code reaches 2^width, while it is below 12; code 256 resets
\* table and width and forgets the previous sequence; code 257 ends the
\* decoding; a code that is neither in the table nor the next free code
\* after a previous sequence is rejected with the invalid-code error.
C13_LzwRegisters ==
    [][/\ call' = "decode_lzw" => LzwInRange(lzw')
       /\ (call = "decode_lzw" /\ lzw.at = "while" /\ LzwRead(lzw, lzw'))
          => LzwHandled(lzw, lzw', lzw'.code)
       /\ (call = "decode_lzw" /\ lzw.at = "raise" /\ returned' # returned)
          => returned' = Err("ValueError")]_vars

\* Three hundred literal codes took the width to 10 bits, clear-table
\* took it back to 9 and emptied the table, three more codes were decoded
\* and the undefined code 300 ended the call with the invalid-code error.
C13_Witness ==
    /\ call = "decode_lzw"
    /\ lzw.at = "raise"
    /\ lzw.code = 300
    /\ lzw.code_bits = 9
    /\ lzw.next_code = 261
    /\ Len(lzw.result) = 300 + 7
    /\ returned = Err("ValueError")

\* ================================================================== C14
\* The registers of a TextState object, its two matrices by value.
Registers(p, obj) ==
    [font_name |-> obj.font_name, font_size |-> obj.font_size,
     tm |-> p.lists[obj.tm], tlm |-> p.lists[obj.tlm],
     char_spacing |-> obj.char_spacing, word_spacing |-> obj.word_spacing,
     leading |-> obj.leading, horizontal_scale |-> obj.horizontal_scale,
     rise |-> obj.rise]

\* The registers in force and the saved ones, oldest first.
Live(p) == Registers(p, State(p))
Saved(p) == [k \in 1..Len(p.state_stack) |-> Registers(p, p.objs[p.state_stack[k]])]

\* The operators of a sequence executed in order.
RECURSIVE Run(_, _)
Run(p, steps) ==
    IF steps = <<>> THEN p
    ELSE Run(ExecuteOperator(p, Head(steps)[1], Head(steps)[2]), Tail(steps))

\* Every operator that writes a register, with operands.
RegisterSteps ==
    {<<op, operands>> :
        op \in {"BT", "Tf", "Td", "TD", "Tm", "T*", "Tc", "Tw", "TL", "Tz", "Ts"},
        operands \in {<<>>, <<NumberToken(3), NumberToken(4)>>,
                      <<NameToken("F2"), NumberToken(5)>>,
                      <<NumberToken(3), NumberToken(1), NumberToken(1),
                        NumberToken(3), NumberToken(8), NumberToken(9)>>}}

\* What may stand between a q and its Q: register writes, also around and
\* inside a nested q ... Q.
Bodies ==
    {<<s>> : s \in RegisterSteps}
    \cup {<<s, <<"q", <<>>>>, t, <<"Q", <<>>>>, s>> :
            s \in {r \in RegisterSteps : r[1] \in {"Td", "Tm"} /\ Len(r[2]) = 6},
            t \in RegisterSteps}

\* C14: Q restores every text-state register (font name and size, text
\* matrix, line matrix, character and word spacing, leading, horizontal
\* scale, rise) to its value at the matching q, whatever was executed in
\* between, the saved matrices sharing nothing with the live ones; nested
\* pairs restore last in, first out; Q on an empty stack changes nothing.
C14_RestoreRegisters ==
    (inputClass = "registers" /\ call = "parse") =>
        /\ \A body \in Bodies :
             \A after \in {Run(interp, <<<<"q", <<>>>>>> \o body \o <<<<"Q", <<>>>>>>)} :
                /\ Live(after) = Live(interp)
                /\ Saved(after) = Saved(interp)
        /\ interp.state_stack = <<>> => ExecuteOperator(interp, "Q", <<>>) = interp

\* q, a move of the text position, Q: the live matrices were moved in
\* place and Q brought the saved copies back.
C14_Witness ==
    /\ inputClass = "registers"
    /\ call = "parse"
    /\ interp.count = 3
    /\ interp.op = "Q"
    /\ interp.state = 2
    /\ interp.state_stack = <<>>
    /\ interp.lists[1] = <<1, 0, 0, 1, 3, 4>>
    /\ Live(interp).tm = Identity

\* ================================================================== C15
\* The parser without the record of the call that brought it about.
Effect(p) == [p EXCEPT !.count = 0, !.op = "", !.operands = <<>>]

\* This step executes operator op with n operands.
Executes(op, n) ==
    /\ call = "parse"
    /\ interp # Unused
    /\ interp'.count = interp.count + 1
    /\ interp'.op = op
    /\ Len(interp'.operands) = n

\* C15: each compound text operator, executed with its full operand list,
\* leaves the parser (registers, matrices, emitted items) as its expansion
\* does: 'tx ty TD' as leading := -ty then 'tx ty Td'; 'T*' as
\* '0 -leading Td'; "s '" as 'T*' then 's Tj'; 'aw ac s "' as word
\* spacing := aw, character spacing := ac, then "s '".
C15_CompoundOperators ==
    [][/\ Executes("TD", 2)
          => Effect(interp') =
             Effect(Run(interp,
                        <<<<"TL", <<NumberToken(-GetNumber(interp'.operands[2]))>>>>,
                          <<"Td", interp'.operands>>>>))
       /\ Executes("T*", 0)
          => Effect(interp') =
             Effect(Run(interp,
                        <<<<"Td", <<NumberToken(0),
                                    NumberToken(-State(interp).leading)>>>>>>))
       /\ Executes("'", 1)
          => Effect(interp') =
             Effect(Run(interp, <<<<"T*", <<>>>>, <<"Tj", interp'.operands>>>>))
       /\ Executes("\"", 3)
          => Effect(interp') =
             Effect(Run(interp,
                        <<<<"Tw", <<interp'.operands[1]>>>>,
                          <<"Tc", <<interp'.operands[2]>>>>,
                          <<"'", <<interp'.operands[3]>>>>>>))]_vars

\* 7 TL, then 2 1 (A) ": the line moved down by the leading and 'A' was
\* emitted there with word spacing 2 and character spacing 1.
C15_Witness ==
    /\ inputClass = "text"
    /\ call = "parse"
    /\ interp.count = 2
    /\ interp.op = "\""
    /\ State(interp).leading = 7
    /\ interp.text_items = <<TextItem(<<65>>, 0, -7, "", 12, 1, 2)>>

\* ================================================================== C16
\* The decoded text of a string token of a TJ array.
Fragment(p, item) == DecodeText(p, item.bytes, item.type = "HEX_STRING")
IsString(item) == item.type \in {"STRING", "HEX_STRING"}

\* The decoded fragments of an array in array order, one space for each
\* number below -100 and nothing for any other number.
RECURSIVE Concatenation(_, _)
Concatenation(p, array) ==
    IF array = <<>> THEN <<>>
    ELSE (CASE IsString(array[1]) -> Fragment(p, array[1])
            [] array[1].type = "NUMBER" /\ array[1].num < -100 -> <<32>>
            [] OTHER -> <<>>)
         \o Concatenation(p, Tail(array))

\* This step appends exactly one TextItem, with the text of the array.
EmitsOne(array) ==
    /\ Len(interp'.text_items) = Len(interp.text_items) + 1
    /\ SubSeq(interp'.text_items, 1, Len(interp.text_items)) = interp.text_items
    /\ interp'.text_items[Len(interp'.text_items)].text = Concatenation(interp, array)

\* C16 as stated: a TJ operand array that contains at least one non-empty
\* string emits exactly one TextItem whose text is the concatenation, in
\* array order, of the decoded fragments, with one space for each number
\* below -100 and nothing for a number of -100 or more.
C16_ArrayWithStringEmitsOne ==
    [][Executes("TJ", 1)
         => \A array \in {interp'.operands[1].items} :
              (\E k \in 1..Len(array) : IsString(array[k]) /\ array[k].bytes # <<>>)
              => EmitsOne(array)]_vars

\* C16, amended: a TJ operand array that contains at least one string
\* whose decoded text is not empty emits exactly one TextItem whose text
\* is the concatenation, in array order, of the decoded fragments, with
\* one space for each number below -100 and nothing for a number of -100
\* or more.
C16_ArrayWithTextEmitsOne ==
    [][Executes("TJ", 1)
         => \A array \in {interp'.operands[1].items} :
              (\E k \in 1..Len(array) :
                  IsString(array[k]) /\ Fragment(interp, array[k]) # <<>>)
              => EmitsOne(array)]_vars

\* [(K) -20 (e)] TJ and then [(A) -150 (B)] TJ have emitted 'Ke' and 'A B'.
C16_Witness ==
    /\ inputClass = "text"
    /\ call = "parse"
    /\ interp.count = 2
    /\ interp.op = "TJ"
    /\ Len(interp.text_items) = 2
    /\ interp.text_items[1].text = <<75, 101>>
    /\ interp.text_items[2].text = <<65, 32, 66>>

\* ================================================================== C17
\* The text a step emitted, empty if it emitted no TextItem.
Emitted ==
    IF Len(interp'.text_items) > Len(interp.text_items)
    THEN interp'.text_items[Len(interp'.text_items)].text
    ELSE <<>>

\* The code points the glyph-to-Unicode map can give.
MapOutput(cmap) == UNION {{cmap[c][k] : k \in 1..Len(cmap[c])} : c \in DOMAIN cmap}

\* C17: text decoding follows a fixed priority.  With a non-empty
\* glyph-to-Unicode map for the active font only that map is used, so
\* every character of the text is one the map gave; otherwise a hex string
\* of an even length of at least 2 bytes that is UTF-16BE is decoded as
\* UTF-16BE, a leading FE FF dropped; otherwise the bytes are decoded with
\* the single-byte encoding.  A lower-priority decoding is never used
\* while a higher-priority one applies.
C17_DecodePriority ==
    [][(Executes("Tj", 1) /\ IsString(interp'.operands[1])
                          /\ interp'.operands[1].bytes # <<>>)
         => \A raw \in {interp'.operands[1].bytes} :
              IF DOMAIN ToUnicodeOf(interp) # {}
              THEN \A k \in 1..Len(Emitted) : Emitted[k] \in MapOutput(ToUnicodeOf(interp))
              ELSE IF /\ interp'.operands[1].type = "HEX_STRING"
                      /\ Len(raw) >= 2 /\ Len(raw) % 2 = 0
                      /\ DecodeUtf16(raw).ok
              THEN Emitted = DecodeUtf16(raw).data
              ELSE Emitted = raw]_vars

\* ================================================================== C18
\* The mappings the entries of a bfrange block define, read one entry
\* after another from token i on: <lo> <hi> <dst> gives lo+k -> dst+k, and
\* <lo> <hi> [<d0> <d1> ...] gives lo+k -> d_k.
RECURSIVE EntryMappings(_, _)
EntryMappings(content, i) ==
    IF i > Len(content) THEN {}
    ELSE IF IsHex(content, i) /\ IsHex(content, i + 1) /\ IsHex(content, i + 2)
    THEN {<<content[i].value + k, <<content[i + 2].value + k>>>> :
            k \in 0..(content[i + 1].value - content[i].value)}
         \cup EntryMappings(content, i + 3)
    ELSE IF /\ IsHex(content, i) /\ IsHex(content, i + 1)
            /\ i + 2 <= Len(content) /\ content[i + 2].type = "["
            /\ \E j \in (i + 3)..Len(content) : content[j].type = "]"
    THEN LET close == CHOOSE j \in (i + 3)..Len(content) :
                        /\ content[j].type = "]"
                        /\ \A k \in (i + 3)..(j - 1) : content[k].type # "]"
         IN {<<content[i].value + k, <<content[i + 3 + k].value>>>> :
               k \in {n \in 0..(content[i + 1].value - content[i].value) :
                        i + 3 + n < close}}
            \cup EntryMappings(content, close + 1)
    ELSE EntryMappings(content, i + 1)

\* The mappings the bfchar and bfrange entries of a character map define.
Defined(cmap_data) ==
    LET chars == OverBlocks(BlockContents(cmap_data, "beginbfchar", "endbfchar", 1),
                            "bfchar", <<>>)
        blocks == BlockContents(cmap_data, "beginbfrange", "endbfrange", 1)
    IN {<<c, chars[c]>> : c \in DOMAIN chars}
       \cup UNION {EntryMappings(blocks[b], 1) : b \in DOMAIN blocks}

\* C18: parse_tounicode_cmap maps, for a bfrange entry <lo> <hi> <dst>,
\* every code lo+i to the character dst+i, and for an entry
\* <lo> <hi> [<d0> <d1> ...] every code lo+i to d_i; the map holds no
\* mapping other than those the bfchar and bfrange entries define: the
\* strings of a destination array are never read as a further range entry.
C18_RangeEntries ==
    call = "parse_tounicode_cmap" =>
        /\ \A c \in DOMAIN returned.data :
              <<c, returned.data[c]>> \in Defined(stream.data)
        /\ \A m \in Defined(stream.data) : m[1] \in DOMAIN returned.data

\* ================================================================== C19
\* The items of a sequence, as a set.
ItemSet(items) == {items[i] : i \in DOMAIN items}

\* The height of the page.
PageHeight == document.MediaBox[4] - document.MediaBox[2]

\* The items come in an order that shows a Y axis growing upward: fewer
\* than two items, or more steps down than up between neighbours that
\* are more than 5 units apart, among the first 51 items.
GrowsUpward(items) ==
    \/ Len(items) < 2
    \/ Cardinality({i \in 1..Min(Len(items) - 1, 50) : items[i + 1].y - items[i].y < -5})
         > Cardinality({i \in 1..Min(Len(items) - 1, 50) : items[i + 1].y - items[i].y > 5})

Orders(items) ==
    {[i \in DOMAIN items |-> items[p[i]]] :
        p \in {q \in [DOMAIN items -> DOMAIN items] :
                 \A i, j \in DOMAIN items : q[i] = q[j] => i = j}}

\* C20: coordinate normalization (direction detection, rescale, flip,
\* final sort) is independent of the order of its input: for any raw
\* TextItems, every permutation of the input sequence yields the same set
\* of normalized items.
C20_OrderIndependent ==
    call = "extract_text_with_positions"
      => \A items \in Orders(interp.text_items) :
            ItemSet(Normalize(items)) = ItemSet(returned.items)

\* C20 as the code has it: direction detection reads the items in the
\* order they come in; rescale, flip and final sort do not, so that every
\* permutation of the input sequence in which the steps between
\* neighbours show the same direction of the Y axis yields the same set
\* of normalized items.
C20_OrderIndependentGivenDirection ==
    call = "extract_text_with_positions"
      => \A items \in Orders(interp.text_items) :
            GrowsUpward(items) = GrowsUpward(interp.text_items)
              => ItemSet(Normalize(items)) = ItemSet(returned.items)

C20_Witness ==
    /\ call = "extract_text_with_positions"
    /\ interp.text_items = <<TextItem(<<72, 105>>, 100, 696, "F1", 12, 0, 0),
                             TextItem(<<72, 105>>, 100, 700, "F1", 12, 0, 0),
                             TextItem(<<72, 105>>, 200, 100, "F1", 12, 0, 0)>>
    /\ returned.items = <<TextItem(<<72, 105>>, 100, 0, "F1", 12, 0, 0),
                          TextItem(<<72, 105>>, 100, 4, "F1", 12, 0, 0),
                          TextItem(<<72, 105>>, 200, 600, "F1", 12, 0, 0)>>
    /\ \E items \in Orders(interp.text_items) :
          items # interp.text_items /\ GrowsUpward(items)

\* ================================================================== C21
\* The majority vote favours upward growth: among all pairs of
\* neighbouring items the pairs whose y delta is below -5 strictly
\* outnumber the pairs whose y delta is above 5.
VoteFavoursUpward(items) ==
    Cardinality({i \in 1..(Len(items) - 1) : items[i + 1].y - items[i].y < -5})
      > Cardinality({i \in 1..(Len(items) - 1) : items[i + 1].y - items[i].y > 5})

\* The items after the rescale, each y replaced by max_y - y if flip.
Expected(items, flip) ==
    \* the largest y, and 842 in its place after a rescale
    LET top == CHOOSE y \in {it.y : it \in ItemSet(items)} :
                  \A it \in ItemSet(items) : it.y <= y
        scaled(it) == IF top > 1500
                      THEN [it EXCEPT !.x = (it.x * 842) \div top,
                                      !.y = (it.y * 842) \div top,
                                      !.font_size = (it.font_size * 842) \div top]
                      ELSE it
        max_y == IF top > 1500 THEN 842 ELSE top
    IN {IF flip THEN [scaled(it) EXCEPT !.y = max_y - @] ELSE scaled(it) :
          it \in ItemSet(items)}

\* Sorted by (y ascending, x ascending).
IsSortedByYX(items) ==
    \A i, j \in DOMAIN items :
        i < j => \/ items[i].y < items[j].y
                 \/ items[i].y = items[j].y /\ items[i].x <= items[j].x

\* C21: every Y is flipped (y := max_y - y) if and only if the majority
\* vote favours upward growth (pairs with a delta of at most 5 either way
\* cast no vote); in every case the returned items are sorted by
\* (y ascending, x ascending).
C21_FlippedIffVote ==
    (call = "extract_text_with_positions" /\ interp.text_items # <<>>)
      => /\ ItemSet(returned.items)
              = Expected(interp.text_items, VoteFavoursUpward(interp.text_items))
         /\ IsSortedByYX(returned.items)

\* C21 as the code has it: every Y is flipped if and only if there are
\* fewer than two items or the vote over the neighbouring pairs of the
\* first 51 items favours upward growth; in every case the returned items
\* are sorted by (y ascending, x ascending).
C21_FlippedIffVoteOrSingle ==
    (call = "extract_text_with_positions" /\ interp.text_items # <<>>)
      => /\ ItemSet(returned.items)
              = Expected(interp.text_items, GrowsUpward(interp.text_items))
         /\ Len(returned.items) = Len(interp.text_items)
         /\ IsSortedByYX(returned.items)

C21_Witness ==
    /\ call = "extract_text_with_positions"
    /\ interp.text_items = <<TextItem(<<72, 105>>, 200, 700, "F1", 12, 0, 0),
                             TextItem(<<72, 105>>, 100, 700, "F1", 12, 0, 0),
                             TextItem(<<72, 105>>, 100, 100, "F1", 12, 0, 0)>>
    /\ VoteFavoursUpward(interp.text_items)
    /\ returned.items = <<TextItem(<<72, 105>>, 100, 0, "F1", 12, 0, 0),
                          TextItem(<<72, 105>>, 200, 0, "F1", 12, 0, 0),
                          TextItem(<<72, 105>>, 100, 600, "F1", 12, 0, 0)>>

\* ================================================================== C22
\* C22: every object embedded in an object stream is stored in the object
\* table under its own object number, the one the stream header pairs
\* with that body, never under the container's: for a compressed entry
\* (object n, container s, index i) the value stored for n is the body of
\* the i-th header pair of s in header order, and that pair's object
\* number is n.
C22_StoredUnderOwnNumber ==
    pc = "done" =>
        \A n \in ObjNums :
            (xref[n].in_use /\ xref[n].compressed /\ objects[n].tag = "embedded")
              => \A s \in {xref[n].offset} :
                    /\ objects[n] = Value("embedded", xref[s].offset, xref[n].gen_num, <<>>)
                    /\ xref[n].gen_num < Len(objBytes[s].pairs)
                    /\ objBytes[s].pairs[xref[n].gen_num + 1] = n

\* ================================================================== C23
\* C23: within one parse every uncompressed entry is resolved before any
\* compressed entry, and each object stream is decoded at most once, no
\* matter how many compressed entries name it as their container; later
\* entries are served from the cache of the parse.
C23_DecodedOnce ==
    /\ pc \in {"objects", "compressed"}
         => \A n \in DOMAIN objects : objects[n].tag # "embedded" /\ decoded[n] = 0
    /\ pc = "compressed"
         => \A n \in Uncompressed(xref) : objBytes[n] # UnreadObj
    /\ pc = "done" => \A s \in DOMAIN decoded : decoded[s] <= 1

\* ================================================================== C24
\* The outcomes of the parses so far, the one that has just ended included.
Outcomes ==
    IF pc \in {"done", "failed"} THEN Append(returned, Outcome) ELSE returned

\* C24: parsing is deterministic and carries no state from one parse to
\* another: two parses of the same buffer, with or without a parse of
\* another buffer in between, give equal version, xref table, trailer and
\* object table, and the second loop of every parse starts with an empty
\* object-stream cache.
C24_ParseDeterministic ==
    /\ \A i, j \in DOMAIN Outcomes :
          Outcomes[i].data = Outcomes[j].data => Outcomes[i] = Outcomes[j]
    /\ pc = "compressed" => \A n \in DOMAIN cache : cache[n] = NotCached

\* Buffer A parsed, then buffer B, then buffer A again; both hold an
\* object stream with members, and their documents differ.
C24_Witness ==
    /\ pc = "done"
    /\ Len(returned) = 2
    /\ call = "A"
    /\ returned[1].data = "A"
    /\ returned[2].data = "B"
    /\ returned[1].objects # returned[2].objects
    /\ \E n \in ObjNums : returned[1].objects[n].tag = "embedded"
    /\ \E n \in ObjNums : returned[2].objects[n].tag = "embedded"
    /\ \E n \in ObjNums : objects[n].tag = "embedded"

\* ================================================================== C25
\* C25: every TextItem a show-text operator (Tj, TJ, ' or ") appends holds
\* the values of the text state at the moment it is appended: the position
\* (tm[4], tm[5]), font name, font size, character spacing and word
\* spacing; no operator changes or removes an item appended before.
C25_ItemRecordsState ==
    [][(call = "parse" /\ interp' # interp) =>
          /\ Len(interp'.text_items) >= Len(interp.text_items)
          /\ SubSeq(interp'.text_items, 1, Len(interp.text_items)) = interp.text_items
          /\ \A i \in (Len(interp.text_items) + 1)..Len(interp'.text_items) :
                \A it \in {interp'.text_items[i]} :
                    /\ it.x = interp'.lists[State(interp').tm][5]
                    /\ it.y = interp'.lists[State(interp').tm][6]
                    /\ it.font_name = State(interp').font_name
                    /\ it.font_size = State(interp').font_size
                    /\ it.char_spacing = State(interp').char_spacing
                    /\ it.word_spacing = State(interp').word_spacing]_vars

\* ================================================================== C26
\* self.state.tm and self.state.tlm
TextMatrix(p) == p.lists[State(p).tm]
LineMatrix(p) == p.lists[State(p).tlm]

\* This step executes operator op, with any operands.
ExecutesOp(op) ==
    /\ call = "parse"
    /\ interp'.count = interp.count + 1
    /\ interp'.op = op

\* C26: in every state of the interpreter the text matrix equals the line
\* matrix component by component; Tj and TJ leave both matrices as they
\* are, ' and " leave them where T* alone puts them (or unchanged, when "
\* has too few operands), and Td, TD and T* change no component but the
\* two translation components.
C26_MatricesAgree ==
    /\ [](call = "parse" => TextMatrix(interp) = LineMatrix(interp))
    /\ [][/\ (ExecutesOp("Tj") \/ ExecutesOp("TJ"))
             => /\ TextMatrix(interp') = TextMatrix(interp)
                /\ LineMatrix(interp') = LineMatrix(interp)
          /\ (ExecutesOp("'") \/ ExecutesOp("\""))
             => \/ /\ TextMatrix(interp') = TextMatrix(interp)
                   /\ LineMatrix(interp') = LineMatrix(interp)
                   /\ Len(interp'.operands) < 3
                   /\ interp'.op = "\""
                \/ /\ TextMatrix(interp')
                        = TextMatrix(ExecuteOperator(interp, "T*", <<>>))
                   /\ LineMatrix(interp')
                        = LineMatrix(ExecuteOperator(interp, "T*", <<>>))
          /\ (ExecutesOp("Td") \/ ExecutesOp("TD") \/ ExecutesOp("T*"))
             => \A k \in 1..4 :
                   /\ TextMatrix(interp')[k] = TextMatrix(interp)[k]
                   /\ LineMatrix(interp')[k] = LineMatrix(interp)[k]]_vars

\* 7 TL, 3 4 Td, (A) ': both matrices stand at (3, -3), where 'A' was
\* emitted.
C26_Witness ==
    /\ inputClass = "text"
    /\ call = "parse"
    /\ interp.count = 3
    /\ interp.op = "'"
    /\ TextMatrix(interp) = <<1, 0, 0, 1, 3, -3>>
    /\ LineMatrix(interp) = <<1, 0, 0, 1, 3, -3>>
    /\ interp.text_items = <<TextItem(<<65>>, 3, -3, "", 12, 0, 0)>>

\* ================================================================== C27
\* The three tokens a call of _parse_value finds from the cursor on, and
\* whether they are integer, integer, keyword R.
IsInteger(t) == ~t.raised /\ t.token.type = "number" /\ ~t.token.real
IsKeywordR(t) == ~t.raised /\ t.token.type = "keyword" /\ t.token.bytes = <<82>>

\* C27: a call of _parse_value that finds a number first returns a
\* reference only if the next three tokens are integer, integer, keyword
\* R, and then the reference to these two integers with the cursor after
\* the R; in every other case it returns the first number alone and
\* leaves the cursor right after that first number token.  (Stated for
\* the buffers in which the tokens looked at can be read.)
C27_ReferenceLookahead ==
    call = "_parse_value" =>
        \A t1 \in {ReadToken(stream, interp.start)} :
            (~t1.raised /\ t1.token.type = "number") =>
                \A t2 \in {ReadToken(stream, t1.pos)} :
                    \A t3 \in {ReadToken(stream, t2.pos)} :
                        (~t2.raised /\ (t2.token.type = "number" => ~t3.raised)) =>
                            IF IsInteger(t1) /\ IsInteger(t2) /\ IsKeywordR(t3)
                            THEN returned = Parsed(PDFRef(t1.token.num, t2.token.num),
                                                   t3.pos)
                            ELSE returned = Parsed(TokenValue(t1.token), t1.pos)

\* ================================================================== C28
\* The value of the literal made of the pieces: its bytes and its inner
\* parentheses, and nothing for a backslash with its end-of-line marker.
IsKept(piece) == ~IsContinuation(piece)
Kept(pieces) == Flat(SelectSeq(pieces, IsKept))

\* C28: in a literal string a backslash followed by LF, CR or CR LF is a
\* line continuation, of which no byte is in the value of the token;
\* balanced inner parentheses are kept in the value; the token ends at the
\* ')' that brings the nesting depth back to zero.
C28_LineContinuation ==
    (inputClass = "strings" /\ call = "read_token" /\ interp.calls = 1) =>
        \A ps \in SeqsUpTo(Pieces, MaxPieces), s \in Suffixes :
            stream = StringLiteral(ps, s) =>
                returned = Lexed(PDFToken("string", 0, 1, FALSE, Kept(ps), 0),
                                 Len(StringLiteral(ps, <<>>)))

\* ================================================================== C29
\* From pos on the buffer holds nothing but white space and comments.
RECURSIVE OnlyBlank(_, _, _)
OnlyBlank(data, pos, in_comment) ==
    IF pos >= Len(data) THEN TRUE
    ELSE IF in_comment THEN OnlyBlank(data, pos + 1, data[pos + 1] \notin {10, 13})
    ELSE IF data[pos + 1] = 37 THEN OnlyBlank(data, pos + 1, TRUE)
    ELSE data[pos + 1] \in WHITESPACE /\ OnlyBlank(data, pos + 1, FALSE)

\* C29: after any sequence of read_token calls begun inside the buffer the
\* cursor is not beyond the end of the buffer; a call that returned a token
\* left the cursor strictly beyond where it began; a call returned None
\* only with nothing but white space and comments from its start on; so a
\* buffer of n bytes gives at most n tokens, and call n + 1 at the latest
\* returns None or raises.
C29_CursorAdvances ==
    call = "read_token" =>
        /\ interp.pos <= Len(stream)
        /\ (~returned.raised /\ returned.token # NoToken) => interp.pos > interp.start
        /\ (~returned.raised /\ returned.token = NoToken)
              => OnlyBlank(stream, interp.start, FALSE)
        /\ interp.calls > Len(stream)
              => (returned.raised \/ returned.token = NoToken)

\* '1%a' and a line feed: the second call skipped the comment and returned
\* None at the end of the buffer.
C29_Witness ==
    /\ inputClass = "bytes"
    /\ stream = <<49, 37, 97, 10>>
    /\ call = "read_token"
    /\ interp = [pos |-> 4, start |-> 1, calls |-> 2]
    /\ returned = Lexed(NoToken, 4)

\* ================================================================== C30
\* The filter types at the heads of the rows of filtered data.
RowTypes(data, row_size) ==
    [k \in 1..(Len(data) \div (row_size + 1)) |-> data[(k - 1) * (row_size + 1) + 1]]

\* C30: for a PNG predictor the reversal reads rows of one filter-type
\* byte and Columns * Colors * BitsPerComponent / 8 data bytes and rebuilds
\* each row modulo 256 by its own filter type (0..4) against the row
\* rebuilt before (zeros before the first): applied to the filtered form
\* of whole rows it returns those rows, that is, as many bytes as the rows
\* hold, which filtered row by row with the same types are the input.
C30_PngRoundTrip ==
    call = "_apply_predictor" =>
        \A p \in {stream.DecodeParms} :
            \A types \in {RowTypes(stream.data, RowBytes(p))} :
                /\ returned.ok
                /\ Len(returned.data) = Len(types) * RowBytes(p)
                /\ PngFilter(returned.data, types, RowBytes(p), PixelBytes(p))
                     = stream.data

====
